---- MODULE Spec2Model ----
(***************************************************************************)
(* Provider resolution and scoped-resource lifecycle of that_depends:      *)
(* Singleton, Resource and ContextResource providers, their                *)
(* ResourceContext records, the container_context scope manager and the    *)
(* ambient _CONTAINER_CONTEXT variable, run by cooperative asyncio tasks   *)
(* (and, in SpecThreads, by OS threads calling sync_resolve).              *)
(***************************************************************************)
EXTENDS Integers, Sequences, FiniteSets, TLC

\* ---------------------------------------------------------------- bounds
\* instances constructed over a run
MaxInst == 3
\* creator / factory / release outcomes other than "ok" over a run
MaxFaults == 1
\* providers overridden at the same time
MaxOverridden == 1
\* scope entries (__enter__ / __aenter__) over a run
MaxEnters == 2

\* ----------------------------------------------------------- universe
Tasks == {"t1", "t2"}
Threads == {"h1", "h2"}
Scopes == {"c1", "c2"}
Dicts == {"d1", "d2"}
Locs == {"global"} \cup Dicts

\* None is 0, the mock handed to override() is -1, constructed instances are 1, 2, ...
\* Falsy is an override value that is not None and tests false (0, "", [], False);
\* Obj is the object an Object provider wraps
None == 0
Mock == -1
Falsy == -2
Obj == -3
\* the values given to override(): an ordinary mock and a falsy one (0, "", [])
Mocks == {Mock, Falsy}
Missing == "missing"
Free == "free"

\* the values the callers stash in the initial contexts, and the default handed
\* to fetch_context_item
Item1 == -4
Item2 == -5
Default == -6
\* the value a caller passes for a parameter whose default is a provider
Given == -7
\* the keys asked for: "k" is in both initial contexts, "absent" in neither
Keys == {"k", "absent"}
\* dict d as its caller built it: whether it has key, and the value under it
HasKey(d, key) == key = "k"
Stored(d, key) == IF d = "d1" THEN Item1 ELSE Item2

\* The container under analysis:
\*   RA = Resource(async creator)            SG = Singleton(factory, RA)
\*   RS = Resource(sync creator)
\*   CB = ContextResource(sync creator)      CA = ContextResource(async creator, CB)
Providers == {"SG", "RA", "RS", "CA", "CB"}
GlobalProviders == {"SG", "RA", "RS"}
CtxProviders == {"CA", "CB"}
\* and the providers that keep no instance:
\*   FA = Factory(factory, RS)               AF = AsyncFactory(factory, RA)
\*   OB = Object(obj)                        SE = Selector(selector, a=RS)
Stateless == {"FA", "AF", "OB", "SE"}
\* and a Resource whose sync creator takes the async Resource:
\*   RD = Resource(sync creator, RA)
Memoized == Providers \cup {"RD"}
AllProviders == Memoized \cup Stateless

Kind(p) ==
  CASE p = "SG" -> "Singleton"
    [] p \in {"RA", "RS", "RD"} -> "Resource"
    [] p = "FA" -> "Factory"
    [] p = "AF" -> "AsyncFactory"
    [] p = "OB" -> "Object"
    [] p = "SE" -> "Selector"
    [] OTHER -> "ContextResource"

IsCreatorAsync(p) == p \in {"RA", "CA"}

Args(p) ==
  CASE p = "SG" -> <<"RA">>
    [] p = "CA" -> <<"CB">>
    [] p = "FA" -> <<"RS">>
    [] p = "AF" -> <<"RA">>
    [] p = "RD" -> <<"RA">>
    [] OTHER -> <<>>

\* the provider a Selector resolves when its selector returns a registered key
Selected(p) == "RS"

Outcomes == {"ok", "none", "raise"}

\* ------------------------------------------------------------ records
\* ResourceContext: instance, context_stack ("none" / "sync" / "async"),
\* resolving_lock (its holder), is_async.  live: the stack still holds the
\* creator's release callback.  starts: creator (factory) invocations since the
\* record was created or last torn down; faulty: one of them raised or yielded None.
\* reg: the record exists.  A Singleton uses instance and lock only.
NewRec(isAsync) ==
  [reg |-> TRUE, instance |-> None, stack |-> "none", live |-> FALSE,
   lock |-> Free, is_async |-> isAsync, starts |-> 0, faulty |-> FALSE]

NoRec == [NewRec(FALSE) EXCEPT !.reg = FALSE]

\* the result of a resolution: a value (with the location and provider of the
\* record it was read from) or an error
OkRes(v) == [k |-> "val", v |-> v, e |-> "", loc |-> "none", p |-> "none"]
ErrRes(e) == [k |-> "err", v |-> None, e |-> e, loc |-> "none", p |-> "none"]
NoRes == [k |-> "none", v |-> None, e |-> "", loc |-> "none", p |-> "none"]
FromRec(m, loc, p) ==
  [k |-> "val", v |-> m.recs[loc][p].instance, e |-> "", loc |-> loc, p |-> p]

\* AbstractResource, Factory and AsyncFactory test the override by truth value,
\* Singleton and Selector by identity with None, Object not at all
Truthy(v) == v \notin {None, Falsy}

HasOverride(m, p) ==
  CASE Kind(p) \in {"Singleton", "Selector"} -> m.ov[p] # None
    [] Kind(p) = "Object" -> FALSE
    [] OTHER -> Truthy(m.ov[p])

\* ------------------------------------------- the resolution machine
\* m bundles what one resolution reads and writes: ov (overrides), recs
\* (records per location), order (registration order per scope dict), akey
\* (the __ASYNC_CONTEXT__ entry per dict), nextId, faults, t (the caller),
\* cv (the caller's _CONTAINER_CONTEXT value), fr (the caller's stack of
\* suspended async_resolve frames), exc (an exception being propagated),
\* out (the top-level result), sr (the result of the last sync_resolve),
\* acc (the argument values a sync_resolve has resolved so far), calls (the
\* factories, creators and selector functions invoked so far, each with the
\* arguments it was passed), resolved (the argument providers and selected
\* providers resolved so far, each with the method that was called on it:
\* "sync" for sync_resolve, "async" for async_resolve).

Rec(m, loc, p) == m.recs[loc][p]
Top(m) == m.fr[Len(m.fr)]
Pop(m) == [m EXCEPT !.fr = SubSeq(m.fr, 1, Len(m.fr) - 1)]
Unlock(m, loc, p) == [m EXCEPT !.recs[loc][p].lock = Free]

\* _get_container_context + ContextResource._fetch_context / Resource._fetch_context:
\* where the provider's record lives, "none" when no scope is set
FetchLoc(m, p) ==
  IF Kind(p) = "ContextResource"
  THEN (IF m.cv = Missing THEN "none" ELSE m.cv)
  ELSE "global"

\* FetchContextItem giving the default, instead of raising, outside every scope
FetchContextItemLenient(cv, key, default) ==
  IF cv = Missing \/ ~HasKey(cv, key) THEN OkRes(default)
  ELSE OkRes(Stored(cv, key))

\* fetch_context_item(key, default) with cv the caller's _CONTAINER_CONTEXT:
\* _get_container_context().get(key, default)
FetchContextItem(cv, key, default) ==
  IF cv = Missing THEN ErrRes("ContextNotSet")
  ELSE IF ~HasKey(cv, key) THEN OkRes(default)
  ELSE OkRes(Stored(cv, key))

IsContainerContextAsync(m) == m.akey[m.cv] = "true"

\* the record is created and registered on first lookup in the scope's dict
FetchContext(m, p) ==
  IF Kind(p) = "ContextResource" /\ ~m.recs[m.cv][p].reg
  THEN [m EXCEPT !.recs[m.cv][p] = NewRec(IsContainerContextAsync(m)),
                 !.order[m.cv] = Append(@, p)]
  ELSE m

\* the creator (or factory) is invoked
Invoke(m, loc, p) == [m EXCEPT !.recs[loc][p].starts = @ + 1]

\* x.sync_resolve() / await x.async_resolve() is called on the argument provider q
ResolvesArg(m, q, via) == [m EXCEPT !.resolved = Append(@, [p |-> q, via |-> via])]

\* the factory or creator of p is called with the argument values args
Called(m, p, args) == [m EXCEPT !.calls = Append(@, [p |-> p, args |-> args])]

\* FactoryResult of a factory that hands out the object it made last
FactoryResultShared(m, o) ==
  CASE o = "ok" -> [m EXCEPT !.sr = OkRes(m.nextId)]
    [] o = "none" -> [m EXCEPT !.faults = @ + 1, !.sr = OkRes(None)]
    [] OTHER -> [m EXCEPT !.faults = @ + 1, !.sr = ErrRes("CreatorError")]

\* what the factory of a Factory or AsyncFactory gives: a new object, None, or
\* an exception
FactoryResult(m, o) ==
  CASE o = "ok" -> [m EXCEPT !.nextId = @ + 1, !.sr = OkRes(m.nextId)]
    [] o = "none" -> [m EXCEPT !.faults = @ + 1, !.sr = OkRes(None)]
    [] OTHER -> [m EXCEPT !.faults = @ + 1, !.sr = ErrRes("CreatorError")]

\* the creator ran to its yield (the factory returned): the result is stored;
\* a raise leaves the record as it is and is reported in sr
Complete(m, loc, p, oc) ==
  CASE oc = "ok" ->
        [m EXCEPT !.recs[loc][p].instance = m.nextId,
                  !.recs[loc][p].live = (m.recs[loc][p].stack # "none"),
                  !.nextId = @ + 1,
                  !.sr = [FromRec(m, loc, p) EXCEPT !.v = m.nextId]]
    [] oc = "none" ->
        [m EXCEPT !.recs[loc][p].instance = None,
                  !.recs[loc][p].live = (m.recs[loc][p].stack # "none"),
                  !.recs[loc][p].faulty = TRUE,
                  !.faults = @ + 1,
                  !.sr = [FromRec(m, loc, p) EXCEPT !.v = None]]
    [] OTHER ->
        [m EXCEPT !.recs[loc][p].faulty = TRUE,
                  !.faults = @ + 1,
                  !.sr = ErrRes("CreatorError")]

\* K applied to the value x: the value is computed once and K names it
Bind(x, K(_)) == K(x)

RECURSIVE SyncResolve(_, _, _)
RECURSIVE SyncArgs(_, _, _, _)

\* [x.sync_resolve() if isinstance(x, AbstractProvider) else x for x in self._args]
\* m.acc holds the values of the arguments before number i
SyncArgs(m, args, i, oc) ==
  IF i > Len(args) THEN [m EXCEPT !.sr = OkRes(None)]
  ELSE Bind(SyncResolve(ResolvesArg(m, args[i], "sync"), args[i], oc),
            LAMBDA m1 :
              IF m1.sr.k = "err" THEN m1
              ELSE SyncArgs([m1 EXCEPT !.acc = Append(m.acc, m1.sr.v)], args, i + 1, oc))

\* context_stack = ExitStack(); instance = context_stack.enter_context(creator(*args))
SyncCreate(m, loc, p, oc) ==
  Bind(SyncArgs([m EXCEPT !.recs[loc][p].stack = "sync", !.recs[loc][p].live = FALSE,
                           !.acc = <<>>], Args(p), 1, oc),
       LAMBDA m2 :
         IF m2.sr.k = "err" THEN m2
         ELSE Complete(Invoke(Called(m2, p, m2.acc), loc, p), loc, p, oc[p]))

\* Singleton: self._instance = self._factory(*args)
SyncFactory(m, p, oc) ==
  Bind(SyncArgs([m EXCEPT !.acc = <<>>], Args(p), 1, oc),
       LAMBDA m1 :
         IF m1.sr.k = "err" THEN m1
         ELSE Complete(Invoke(Called(m1, p, m1.acc), "global", p), "global", p, oc[p]))

\* SyncStateless with a Selector that falls back to its registered provider
\* when the selector returns a key with no provider
SyncStatelessFallsBack(m, p, oc) ==
  CASE Kind(p) = "Object" -> [m EXCEPT !.sr = OkRes(Obj)]
    [] Kind(p) = "AsyncFactory" -> [m EXCEPT !.sr = ErrRes("AsyncFactorySync")]
    [] Kind(p) = "Factory" ->
         IF HasOverride(m, p) THEN [m EXCEPT !.sr = OkRes(m.ov[p])]
         ELSE Bind(SyncArgs([m EXCEPT !.acc = <<>>], Args(p), 1, oc),
                   LAMBDA m1 :
                     IF m1.sr.k = "err" THEN m1
                     ELSE FactoryResult(Called(m1, p, m1.acc), oc[p]))
    [] OTHER ->
         IF HasOverride(m, p) THEN [m EXCEPT !.sr = OkRes(m.ov[p])]
         ELSE IF oc[p] \in {"ok", "none"}
         THEN SyncResolve(ResolvesArg(Called(m, p, <<>>), Selected(p), "sync"),
                          Selected(p), oc)
         ELSE [Called(m, p, <<>>) EXCEPT !.faults = @ + 1, !.sr = ErrRes("CreatorError")]

\* sync_resolve of the providers that keep no instance.  For a Selector the
\* oracle of the step gives what the selector function returns: "ok" a
\* registered key, "none" a key with no provider, "raise" an exception
SyncStateless(m, p, oc) ==
  CASE Kind(p) = "Object" -> [m EXCEPT !.sr = OkRes(Obj)]
    [] Kind(p) = "AsyncFactory" -> [m EXCEPT !.sr = ErrRes("AsyncFactorySync")]
    [] Kind(p) = "Factory" ->
         IF HasOverride(m, p) THEN [m EXCEPT !.sr = OkRes(m.ov[p])]
         ELSE Bind(SyncArgs([m EXCEPT !.acc = <<>>], Args(p), 1, oc),
                   LAMBDA m1 :
                     IF m1.sr.k = "err" THEN m1
                     ELSE FactoryResult(Called(m1, p, m1.acc), oc[p]))
    [] OTHER ->
         IF HasOverride(m, p) THEN [m EXCEPT !.sr = OkRes(m.ov[p])]
         ELSE IF oc[p] = "ok"
         THEN SyncResolve(ResolvesArg(Called(m, p, <<>>), Selected(p), "sync"),
                          Selected(p), oc)
         ELSE IF oc[p] = "none"
         THEN [Called(m, p, <<>>) EXCEPT !.faults = @ + 1, !.sr = ErrRes("NoMatch")]
         ELSE [Called(m, p, <<>>) EXCEPT !.faults = @ + 1, !.sr = ErrRes("CreatorError")]

\* SyncLookup with the test of the creator's kind ahead of the memoized instance
SyncLookupGuardFirst(m, p) ==
  IF HasOverride(m, p) THEN [m EXCEPT !.sr = OkRes(m.ov[p])]
  ELSE IF Kind(p) = "Singleton"
  THEN IF Rec(m, "global", p).instance # None
       THEN [m EXCEPT !.sr = FromRec(m, "global", p)]
       ELSE [m EXCEPT !.sr = NoRes]
  ELSE IF FetchLoc(m, p) = "none" THEN [m EXCEPT !.sr = ErrRes("ContextNotSet")]
  ELSE LET loc == FetchLoc(m, p)
           m1 == FetchContext(m, p)
       IN IF IsCreatorAsync(p)
          THEN [m1 EXCEPT !.sr = ErrRes("SyncOnAsync")]
          ELSE IF Rec(m1, loc, p).instance # None
          THEN [m1 EXCEPT !.sr = FromRec(m1, loc, p)]
          ELSE [m1 EXCEPT !.sr = NoRes]

\* sync_resolve up to the construction: the override, the lookup of the
\* record, the memoized instance, the test of the creator's kind.  sr is the
\* result, or NoRes when the instance has to be constructed
SyncLookup(m, p) ==
  IF HasOverride(m, p) THEN [m EXCEPT !.sr = OkRes(m.ov[p])]
  ELSE IF Kind(p) = "Singleton"
  THEN IF Rec(m, "global", p).instance # None
       THEN [m EXCEPT !.sr = FromRec(m, "global", p)]
       ELSE [m EXCEPT !.sr = NoRes]
  ELSE IF FetchLoc(m, p) = "none" THEN [m EXCEPT !.sr = ErrRes("ContextNotSet")]
  ELSE LET loc == FetchLoc(m, p)
           m1 == FetchContext(m, p)
       IN IF Rec(m1, loc, p).instance # None
          THEN [m1 EXCEPT !.sr = FromRec(m1, loc, p)]
          ELSE IF IsCreatorAsync(p)
          THEN [m1 EXCEPT !.sr = ErrRes("SyncOnAsync")]
          ELSE [m1 EXCEPT !.sr = NoRes]

\* SyncConstruct behind the creation lock: while another caller holds it the
\* call waits, and has no result
SyncConstructWaits(m, p, oc) ==
  IF Rec(m, FetchLoc(m, p), p).lock # Free THEN [m EXCEPT !.sr = NoRes]
  ELSE IF Kind(p) = "Singleton" THEN SyncFactory(m, p, oc)
  ELSE SyncCreate(m, FetchLoc(m, p), p, oc)

\* the construction at the end of sync_resolve; no lock is taken
SyncConstruct(m, p, oc) ==
  IF Kind(p) = "Singleton" THEN SyncFactory(m, p, oc)
  ELSE SyncCreate(m, FetchLoc(m, p), p, oc)

SyncResolve(m, p, oc) ==
  IF p \in Stateless THEN SyncStateless(m, p, oc)
  ELSE Bind(SyncLookup(m, p),
            LAMBDA m1 : IF m1.sr.k # "none" THEN m1 ELSE SyncConstruct(m1, p, oc))

\* inspect.iscoroutinefunction(provider.async_resolve): async_resolve is an
\* `async def` method in every provider class
AsyncResolveIsCoroutine(p) == TRUE

\* the ways a caller treats the parameter `dep` of `@inject def f(x, dep=p)`:
\* f(1), f(1, Given), f(1, dep=Given)
Hows == {"no", "pos", "kw"}

\* _inject_to_sync.inner for that function, which returns its dep: sr is what
\* the call gives
InjectToSync(m, p, how, oc) ==
  IF how = "pos" THEN [m EXCEPT !.sr = OkRes(Given)]
  ELSE IF how = "kw" THEN [m EXCEPT !.sr = ErrRes("Redefined")]
  ELSE IF AsyncResolveIsCoroutine(p) THEN [m EXCEPT !.sr = ErrRes("AsyncResourceSync")]
  ELSE SyncResolve(m, p, oc)

\* ------------------------------------------------ async_resolve, by steps
\* A frame is one async_resolve call of the caller's await chain:
\*   "start"    before the override test
\*   "wait"     suspended in `async with resolving_lock` (held by another task)
\*   "locked"   holds the lock, before the second test of instance
\*   "args"     holds the lock, resolving argument number argi
\*   "creating" holds the lock, suspended inside the async creator
\*   "created"  the async creator reached its yield (or raised)
\* vals are the values of the arguments resolved so far.  A frame of a provider
\* that keeps no instance takes no lock: its loc stays "none".
NewFrame(p) == [p |-> p, pc |-> "start", loc |-> "none", argi |-> 1, vals |-> <<>>]

SetTop(m, f) == [m EXCEPT !.fr[Len(m.fr)] = f]

\* `return value`: to the awaiting frame, or out of the top-level call
Return(m, res) ==
  LET m1 == Pop(m)
  IN IF m1.fr = <<>> THEN [m1 EXCEPT !.out = res]
     ELSE [m1 EXCEPT !.fr[Len(m1.fr)].argi = @ + 1,
                     !.fr[Len(m1.fr)].vals = Append(@, res.v)]

\* `raise`: the frame is left and the exception travels up
Raise(m, e) == [Pop(m) EXCEPT !.exc = e]

\* Unwind without the release of the lock
UnwindKeepsLock(m) ==
  IF m.fr = <<>> THEN [m EXCEPT !.out = ErrRes(m.exc), !.exc = ""]
  ELSE Pop(m)

\* an exception passes a frame that awaits an argument inside
\* `async with resolving_lock`: the lock is released on the way out
Unwind(m) ==
  IF m.fr = <<>> THEN [m EXCEPT !.out = ErrRes(m.exc), !.exc = ""]
  ELSE IF Top(m).loc = "none" THEN Pop(m)
  ELSE Pop(Unlock(m, Top(m).loc, Top(m).p))

\* asyncio.Lock.acquire: taken at once when free, otherwise the task suspends
Acquire(m, loc) ==
  IF Rec(m, loc, Top(m).p).lock = Free
  THEN SetTop([m EXCEPT !.recs[loc][Top(m).p].lock = m.t],
              [Top(m) EXCEPT !.pc = "locked", !.loc = loc])
  ELSE SetTop(m, [Top(m) EXCEPT !.pc = "wait", !.loc = loc])

\* StartStep with the scope lookup (which may register the record) before the
\* test of the override
StartStepFetchFirst(m) ==
  LET p == Top(m).p
  IN IF Kind(p) = "Singleton"
     THEN IF HasOverride(m, p) THEN Return(m, OkRes(m.ov[p]))
          ELSE IF Rec(m, "global", p).instance # None
          THEN Return(m, FromRec(m, "global", p))
          ELSE Acquire(m, "global")
     ELSE IF FetchLoc(m, p) = "none" THEN Raise(m, "ContextNotSet")
     ELSE LET loc == FetchLoc(m, p)
              m1 == FetchContext(m, p)
          IN IF HasOverride(m1, p) THEN Return(m1, OkRes(m1.ov[p]))
             ELSE IF Rec(m1, loc, p).instance # None
             THEN Return(m1, FromRec(m1, loc, p))
             ELSE IF ~Rec(m1, loc, p).is_async /\ IsCreatorAsync(p)
             THEN Raise(m1, "AsyncInSync")
             ELSE Acquire(m1, loc)

\* StartStep with the lock taken ahead of the first test of the instance
StartStepLockFirst(m) ==
  LET p == Top(m).p
  IN IF HasOverride(m, p) THEN Return(m, OkRes(m.ov[p]))
     ELSE IF Kind(p) = "Singleton" THEN Acquire(m, "global")
     ELSE IF FetchLoc(m, p) = "none" THEN Raise(m, "ContextNotSet")
     ELSE Acquire(FetchContext(m, p), FetchLoc(m, p))

\* StartStep with the test of is_async made inside `async with resolving_lock`
\* and the lock kept when the test rejects the call
StartStepRejectsLocked(m) ==
  LET p == Top(m).p
  IN IF HasOverride(m, p) THEN Return(m, OkRes(m.ov[p]))
     ELSE IF Kind(p) = "Singleton"
     THEN IF Rec(m, "global", p).instance # None
          THEN Return(m, FromRec(m, "global", p))
          ELSE Acquire(m, "global")
     ELSE IF FetchLoc(m, p) = "none" THEN Raise(m, "ContextNotSet")
     ELSE LET loc == FetchLoc(m, p)
              m1 == FetchContext(m, p)
          IN IF Rec(m1, loc, p).instance # None
             THEN Return(m1, FromRec(m1, loc, p))
             ELSE IF ~Rec(m1, loc, p).is_async /\ IsCreatorAsync(p)
             THEN Raise([m1 EXCEPT !.recs[loc][p].lock = m.t], "AsyncInSync")
             ELSE Acquire(m1, loc)

StartStep(m) ==
  LET p == Top(m).p
  IN IF HasOverride(m, p) THEN Return(m, OkRes(m.ov[p]))
     ELSE IF Kind(p) = "Singleton"
     THEN IF Rec(m, "global", p).instance # None
          THEN Return(m, FromRec(m, "global", p))
          ELSE Acquire(m, "global")
     ELSE IF FetchLoc(m, p) = "none" THEN Raise(m, "ContextNotSet")
     ELSE LET loc == FetchLoc(m, p)
              m1 == FetchContext(m, p)
          IN IF Rec(m1, loc, p).instance # None
             THEN Return(m1, FromRec(m1, loc, p))
             ELSE IF ~Rec(m1, loc, p).is_async /\ IsCreatorAsync(p)
             THEN Raise(m1, "AsyncInSync")
             ELSE Acquire(m1, loc)

\* LockedStep without the second test of the instance under the lock
LockedStepNoRecheck(m, oc) ==
  LET p == Top(m).p
      loc == Top(m).loc
  IN IF Kind(p) = "Singleton"
     THEN SetTop(m, [Top(m) EXCEPT !.pc = "args", !.argi = 1])
     ELSE IF IsCreatorAsync(p)
     THEN SetTop([m EXCEPT !.recs[loc][p].stack = "async", !.recs[loc][p].live = FALSE],
                 [Top(m) EXCEPT !.pc = "args", !.argi = 1])
     ELSE Bind(SyncCreate(m, loc, p, oc),
               LAMBDA m1 :
                 IF m1.sr.k = "err" THEN Raise(Unlock(m1, loc, p), m1.sr.e)
                 ELSE Return(Unlock(m1, loc, p), FromRec(m1, loc, p)))

\* inside `async with resolving_lock`: the second test of the instance, then
\* the construction
LockedStep(m, oc) ==
  LET p == Top(m).p
      loc == Top(m).loc
  IN IF Rec(m, loc, p).instance # None
     THEN Return(Unlock(m, loc, p), FromRec(m, loc, p))
     ELSE IF Kind(p) = "Singleton"
     THEN SetTop(m, [Top(m) EXCEPT !.pc = "args", !.argi = 1])
     ELSE IF IsCreatorAsync(p)
     THEN SetTop([m EXCEPT !.recs[loc][p].stack = "async", !.recs[loc][p].live = FALSE],
                 [Top(m) EXCEPT !.pc = "args", !.argi = 1])
     ELSE Bind(SyncCreate(m, loc, p, oc),
               LAMBDA m1 :
                 IF m1.sr.k = "err" THEN Raise(Unlock(m1, loc, p), m1.sr.e)
                 ELSE Return(Unlock(m1, loc, p), FromRec(m1, loc, p)))

ArgsStep(m, oc) ==
  LET p == Top(m).p
      loc == Top(m).loc
  IN IF Top(m).argi <= Len(Args(p))
     THEN [ResolvesArg(m, Args(p)[Top(m).argi], "async") EXCEPT
             !.fr = Append(@, NewFrame(Args(p)[Top(m).argi]))]
     ELSE IF Kind(p) = "Singleton"
     THEN Bind(Complete(Invoke(Called(m, p, Top(m).vals), loc, p), loc, p, oc[p]),
               LAMBDA m1 :
                 IF m1.sr.k = "err" THEN Raise(Unlock(m1, loc, p), m1.sr.e)
                 ELSE Return(Unlock(m1, loc, p), FromRec(m1, loc, p)))
     ELSE SetTop(Invoke(Called(m, p, Top(m).vals), loc, p),
                 [Top(m) EXCEPT !.pc = "creating"])

\* CreatedStep with the lock released on the normal path only: a creator that
\* raises leaves the lock held
CreatedStepKeepsLock(m, oc) ==
  LET p == Top(m).p
      loc == Top(m).loc
  IN Bind(Complete(m, loc, p, oc[p]),
          LAMBDA m1 :
            IF m1.sr.k = "err" THEN Raise(m1, m1.sr.e)
            ELSE Return(Unlock(m1, loc, p), FromRec(m1, loc, p)))

\* CreatedStep with a second test of the override when the creator has yielded
CreatedStepSeesOverride(m, oc) ==
  LET p == Top(m).p
      loc == Top(m).loc
  IN Bind(Complete(m, loc, p, oc[p]),
          LAMBDA m1 :
            IF HasOverride(m, p) THEN Return(Unlock(m1, loc, p), OkRes(m.ov[p]))
            ELSE IF m1.sr.k = "err" THEN Raise(Unlock(m1, loc, p), m1.sr.e)
            ELSE Return(Unlock(m1, loc, p), FromRec(m1, loc, p)))

CreatedStep(m, oc) ==
  LET p == Top(m).p
      loc == Top(m).loc
  IN Bind(Complete(m, loc, p, oc[p]),
          LAMBDA m1 :
            IF m1.sr.k = "err" THEN Raise(Unlock(m1, loc, p), m1.sr.e)
            ELSE Return(Unlock(m1, loc, p), FromRec(m1, loc, p)))

\* the result of a factory call leaves the frame
Deliver(m) == IF m.sr.k = "err" THEN Raise(m, m.sr.e) ELSE Return(m, m.sr)

\* async_resolve of the providers that keep no instance: Object, Factory,
\* AsyncFactory (suspended in its factory at "creating") and Selector (its one
\* "argument" is the selected provider)
StatelessStep(m, oc) ==
  LET p == Top(m).p
      f == Top(m)
  IN CASE f.pc = "start" ->
            IF Kind(p) = "Object" THEN Return(m, OkRes(Obj))
            ELSE IF HasOverride(m, p) THEN Return(m, OkRes(m.ov[p]))
            ELSE IF Kind(p) # "Selector"
            THEN SetTop(m, [f EXCEPT !.pc = "args", !.argi = 1])
            ELSE IF oc[p] = "ok"
            THEN SetTop(Called(m, p, <<>>), [f EXCEPT !.pc = "args", !.argi = 1])
            ELSE Raise([Called(m, p, <<>>) EXCEPT !.faults = @ + 1],
                       IF oc[p] = "none" THEN "NoMatch" ELSE "CreatorError")
       [] f.pc = "args" ->
            IF Kind(p) = "Selector"
            THEN IF f.argi = 1
                 THEN [ResolvesArg(m, Selected(p), "async") EXCEPT
                         !.fr = Append(@, NewFrame(Selected(p)))]
                 ELSE Return(m, OkRes(f.vals[1]))
            ELSE IF f.argi <= Len(Args(p))
            THEN [ResolvesArg(m, Args(p)[f.argi], "async") EXCEPT
                    !.fr = Append(@, NewFrame(Args(p)[f.argi]))]
            ELSE IF Kind(p) = "Factory"
            THEN Deliver(FactoryResult(Called(m, p, f.vals), oc[p]))
            ELSE SetTop(Called(m, p, f.vals), [f EXCEPT !.pc = "creating"])
       [] OTHER -> Deliver(FactoryResult(m, oc[p]))

Step(m, oc) ==
  IF m.exc # "" THEN Unwind(m)
  ELSE IF Top(m).p \in Stateless THEN StatelessStep(m, oc)
  ELSE CASE Top(m).pc = "start" -> StartStep(m)
         [] Top(m).pc = "locked" -> LockedStep(m, oc)
         [] Top(m).pc = "args" -> ArgsStep(m, oc)
         [] OTHER -> CreatedStep(m, oc)

\* a task runs until it returns, raises, or suspends at a lock or in a creator
Halted(m) == m.exc = "" /\ (m.fr = <<>> \/ Top(m).pc \in {"wait", "creating"})

RECURSIVE Run(_, _)
Run(m, oc) ==
  IF Halted(m) THEN m ELSE CHOOSE r \in {Run(m1, oc) : m1 \in {Step(m, oc)}} : TRUE

\* ---------------------------------------------------------------- state
VARIABLES
  override,         \* AbstractProvider._override per provider
  recs,             \* the ResourceContext (Singleton slot) per location and provider
  order,            \* per scope dict, its ResourceContext keys in insertion order
  akey,             \* per scope dict, its __ASYNC_CONTEXT__ entry: "unset"/"true"/"false"
  initial_context,  \* container_context._initial_context: the dict of each scope object
  token,            \* container_context._context_token of each scope object
  ctxVar,           \* _CONTAINER_CONTEXT as each task sees it
  born,             \* the tasks that were created
  frames,           \* per task, its suspended async_resolve frames
  thr,              \* per thread, its position inside sync_resolve
  nextId, faults, enters

vars == <<override, recs, order, akey, initial_context, token, ctxVar, born, frames,
          thr, nextId, faults, enters>>

NoToken == [set |-> FALSE, old |-> Missing, used |-> FALSE, task |-> "t1"]
IdleThread == [pc |-> "idle", p |-> "none"]

\* p and the providers it takes as arguments, transitively
RECURSIVE Deps(_)
Deps(p) ==
  {p} \cup UNION {Deps(Args(p)[i]) : i \in 1..Len(Args(p))}
      \cup (IF Kind(p) = "Selector" THEN Deps(Selected(p)) ELSE {})

\* the oracles of one resolution of p: which creator / factory of Deps(p), at
\* most one, yields None or raises in this step
AllOk == [q \in AllProviders |-> "ok"]
Oracles(p) ==
  {AllOk} \cup {[AllOk EXCEPT ![q] = o] : q \in Deps(p), o \in Outcomes \ {"ok"}}
NonOk(oc) == Cardinality({p \in AllProviders : oc[p] # "ok"})

Init ==
  /\ override = [p \in AllProviders |-> None]
  /\ recs = [loc \in Locs |->
              [p \in Memoized |->
                IF loc = "global" /\ Kind(p) = "Singleton" THEN NewRec(FALSE)
                ELSE IF loc = "global" /\ Kind(p) = "Resource" THEN NewRec(IsCreatorAsync(p))
                ELSE NoRec]]
  /\ order = [d \in Dicts |-> <<>>]
  /\ akey = [d \in Dicts |-> "unset"]
  /\ initial_context \in {[c \in Scopes |-> IF c = "c1" THEN "d1" ELSE "d2"],
                          [c \in Scopes |-> "d1"]}
  /\ token = [c \in Scopes |-> NoToken]
  /\ ctxVar = [t \in Tasks |-> Missing]
  /\ born = {"t1"}
  /\ frames = [t \in Tasks |-> <<>>]
  /\ thr = [h \in Threads |-> IdleThread]
  /\ nextId = 1
  /\ faults = 0
  /\ enters = 0

\* the scope objects were constructed without initial_context: a dict each
InitPrivate == Init /\ initial_context["c2"] = "d2"

\* both scope objects were constructed with the same non-empty initial_context
\* (two calls of one function decorated with container_context(ctx))
InitShared == Init /\ initial_context["c2"] = "d1"

\* what a resolution by caller t starts from
Machine(t, cv, fr) ==
  [ov |-> override, recs |-> recs, order |-> order, akey |-> akey, nextId |-> nextId,
   faults |-> faults, t |-> t, cv |-> cv, fr |-> fr, exc |-> "", out |-> NoRes,
   sr |-> NoRes, acc |-> <<>>, calls |-> <<>>, resolved |-> <<>>]

\* the oracle's fault was met, and the step stays within the bounds
Within(m, oc) ==
  /\ m.faults = faults + NonOk(oc)
  /\ m.faults <= MaxFaults
  /\ m.nextId <= MaxInst + 1

\* the state after a resolution step
Commit(m) ==
  /\ recs' = m.recs
  /\ order' = m.order
  /\ nextId' = m.nextId
  /\ faults' = m.faults
  /\ UNCHANGED <<override, akey, initial_context, token, ctxVar, born, enters>>

Idle(t) == t \in born /\ frames[t] = <<>>

\* await p.async_resolve() by task t, up to its end or its first suspension
AsyncCall(t, p, oc) == Run(Machine(t, ctxVar[t], <<NewFrame(p)>>), oc)

AsyncResolve(t, p) ==
  /\ Idle(t)
  /\ \E oc \in Oracles(p) :
       \E m \in {AsyncCall(t, p, oc)} :
         /\ Within(m, oc)
         /\ Commit(m)
         /\ frames' = [frames EXCEPT ![t] = m.fr]
         /\ UNCHANGED thr

\* the event loop resumes a suspended task: the lock it waits for is free, or
\* the creator it awaits has reached its yield
CanResume(t) ==
  /\ t \in born
  /\ frames[t] # <<>>
  /\ LET f == frames[t][Len(frames[t])]
     IN f.pc = "wait" => recs[f.loc][f.p].lock = Free

Resumed(t, oc) ==
  LET f == frames[t][Len(frames[t])]
      m0 == Machine(t, ctxVar[t], frames[t])
  IN Run(IF f.pc = "wait" THEN Acquire(m0, f.loc)
         ELSE SetTop(m0, [f EXCEPT !.pc = "created"]), oc)

Resume(t) ==
  /\ CanResume(t)
  /\ \E oc \in Oracles(frames[t][1].p) :
       \E m \in {Resumed(t, oc)} :
         /\ Within(m, oc)
         /\ Commit(m)
         /\ frames' = [frames EXCEPT ![t] = m.fr]
         /\ UNCHANGED thr

\* p.sync_resolve() called by task t: one uninterrupted step of the loop
SyncCall(t, p, oc) == SyncResolve(Machine(t, ctxVar[t], <<>>), p, oc)

SyncResolveCall(t, p) ==
  /\ Idle(t)
  /\ \E oc \in Oracles(p) :
       LET m == SyncCall(t, p, oc)
       IN /\ Within(m, oc)
          /\ Commit(m)
  /\ UNCHANGED <<frames, thr>>

\* f(...) called by task t, f a sync function decorated with inject whose
\* parameter dep has the provider p as default
InjectCall(t, p, how) ==
  /\ Idle(t)
  /\ \E oc \in Oracles(p) :
       \E m \in {InjectToSync(Machine(t, ctxVar[t], <<>>), p, how, oc)} :
         /\ Within(m, oc)
         /\ Commit(m)
  /\ UNCHANGED <<frames, thr>>

\* -------------------------------------------------------------- threads
\* An OS thread h calls p.sync_resolve() of a container-level provider.  The
\* threads run in parallel and sync_resolve takes no lock, so another thread
\* can run between the test of the instance and the construction.
ThreadCall(h, p) ==
  /\ thr[h].pc = "idle"
  /\ LET m == SyncLookup(Machine(h, Missing, <<>>), p)
     IN thr' = [thr EXCEPT ![h] = IF m.sr.k = "none" THEN [pc |-> "construct", p |-> p]
                                  ELSE IdleThread]
  /\ UNCHANGED <<override, recs, order, akey, initial_context, token, ctxVar, born,
                 frames, nextId, faults, enters>>

ThreadConstruct(h) ==
  /\ thr[h].pc = "construct"
  /\ \E oc \in Oracles(thr[h].p) :
       LET m == SyncConstruct(Machine(h, Missing, <<>>), thr[h].p, oc)
       IN /\ Within(m, oc)
          /\ Commit(m)
  /\ thr' = [thr EXCEPT ![h] = IdleThread]
  /\ UNCHANGED frames

\* asyncio.create_task: the new task starts from a copy of its creator's context
Spawn(t, u) ==
  /\ Idle(t) /\ u \notin born
  /\ born' = born \cup {u}
  /\ ctxVar' = [ctxVar EXCEPT ![u] = ctxVar[t]]
  /\ UNCHANGED <<override, recs, order, akey, initial_context, token, frames, thr,
                 nextId, faults, enters>>

\* Singleton.tear_down(): the cached instance is dropped
SingletonTearDown(p) ==
  /\ \E t \in Tasks : Idle(t)
  /\ Kind(p) = "Singleton"
  /\ LET r == recs["global"][p]
     IN recs' = [recs EXCEPT !["global"][p] =
                  IF r.instance # None
                  THEN [r EXCEPT !.instance = None,
                                 !.starts = IF r.lock = Free THEN 0 ELSE r.starts,
                                 !.faulty = IF r.lock = Free THEN FALSE ELSE r.faulty]
                  ELSE r]
  /\ UNCHANGED <<override, order, akey, initial_context, token, ctxVar, born, frames,
                 thr, nextId, faults, enters>>

\* ------------------------------------------------------------ overriding
\* AbstractProvider.override(mock), called by running code
Override(p, v) ==
  /\ \E t \in Tasks : Idle(t)
  /\ Cardinality({q \in AllProviders : override[q] # None}) < MaxOverridden
  /\ override[p] = None
  /\ override' = [override EXCEPT ![p] = v]
  /\ UNCHANGED <<recs, order, akey, initial_context, token, ctxVar, born, frames,
                 thr, nextId, faults, enters>>

\* AbstractProvider.reset_override()
ResetOverride(p) ==
  /\ \E t \in Tasks : Idle(t)
  /\ override[p] # None
  /\ override' = [override EXCEPT ![p] = None]
  /\ UNCHANGED <<recs, order, akey, initial_context, token, ctxVar, born, frames,
                 thr, nextId, faults, enters>>

\* `with p.override_context(v): q.sync_resolve()`: override(v) on entry, the
\* body, reset_override() in the finally clause of the context manager
OverrideContextCall(t, p, v, q, oc) ==
  LET m == SyncResolve([Machine(t, ctxVar[t], <<>>) EXCEPT !.ov[p] = v], q, oc)
  IN [m EXCEPT !.ov[p] = None]

OverrideContext(t, p, v, q) ==
  /\ Idle(t)
  /\ \E oc \in Oracles(q) :
       LET m == OverrideContextCall(t, p, v, q, oc)
       IN /\ Within(m, oc)
          /\ override' = m.ov
          /\ recs' = m.recs
          /\ order' = m.order
          /\ nextId' = m.nextId
          /\ faults' = m.faults
  /\ UNCHANGED <<akey, initial_context, token, ctxVar, born, frames, thr, enters>>

\* ------------------------------------------------------- container_context
\* Enter with the active scope kept in one variable of the module, shared by
\* every task, instead of a ContextVar
EnterGlobal(t, c, isAsync) ==
  /\ Idle(t)
  /\ enters < MaxEnters
  /\ enters' = enters + 1
  /\ akey' = [akey EXCEPT ![initial_context[c]] = IF isAsync THEN "true" ELSE "false"]
  /\ token' = [token EXCEPT ![c] =
                 [set |-> TRUE, old |-> ctxVar[t], used |-> FALSE, task |-> t]]
  /\ ctxVar' = [u \in Tasks |-> initial_context[c]]
  /\ UNCHANGED <<override, recs, order, initial_context, born, frames, thr,
                 nextId, faults>>

\* Enter with a token that remembers no enclosing scope: the exit leaves the
\* task outside every scope
EnterForgetsOuter(t, c, isAsync) ==
  /\ Idle(t)
  /\ enters < MaxEnters
  /\ enters' = enters + 1
  /\ akey' = [akey EXCEPT ![initial_context[c]] = IF isAsync THEN "true" ELSE "false"]
  /\ token' = [token EXCEPT ![c] =
                 [set |-> TRUE, old |-> Missing, used |-> FALSE, task |-> t]]
  /\ ctxVar' = [ctxVar EXCEPT ![t] = initial_context[c]]
  /\ UNCHANGED <<override, recs, order, initial_context, born, frames, thr,
                 nextId, faults>>

\* __enter__ (isAsync = FALSE) / __aenter__ (isAsync = TRUE), then _enter
Enter(t, c, isAsync) ==
  /\ Idle(t)
  /\ enters < MaxEnters
  /\ enters' = enters + 1
  /\ akey' = [akey EXCEPT ![initial_context[c]] = IF isAsync THEN "true" ELSE "false"]
  /\ token' = [token EXCEPT ![c] =
                 [set |-> TRUE, old |-> ctxVar[t], used |-> FALSE, task |-> t]]
  /\ ctxVar' = [ctxVar EXCEPT ![t] = initial_context[c]]
  /\ UNCHANGED <<override, recs, order, initial_context, born, frames, thr,
                 nextId, faults>>

\* closing the record's exit stack runs the creator's release action, when the
\* stack still holds it; the result of one teardown call: the record after
\* it, the error it raised, whether the release action ran
Cleared(r) ==
  [r EXCEPT !.stack = "none", !.instance = None, !.live = FALSE,
            !.starts = IF r.lock = Free THEN 0 ELSE @,
            !.faulty = IF r.lock = Free THEN FALSE ELSE @]

CloseStack(r, oc) ==
  IF r.live /\ oc = "raise"
  THEN [r |-> [r EXCEPT !.live = FALSE], err |-> "ReleaseError", ran |-> TRUE]
  ELSE [r |-> Cleared(r), err |-> "", ran |-> r.live]

\* ResourceContext.tear_down
TearDown(r, oc) ==
  IF r.stack = "none" THEN [r |-> r, err |-> "", ran |-> FALSE]
  ELSE CloseStack(r, oc)

\* ResourceContext.sync_tear_down
SyncTearDown(r, oc) ==
  IF r.stack = "none" THEN [r |-> r, err |-> "", ran |-> FALSE]
  ELSE IF r.stack = "sync" THEN CloseStack(r, oc)
  ELSE [r |-> r, err |-> "AsyncTearDownInSync", ran |-> FALSE]

\* the body of the loop of __exit__ (mode "sync") and of __aexit__ (mode "async")
TearDownItem(r, mode, oc) ==
  IF mode = "async" /\ r.stack = "async" THEN TearDown(r, oc)
  ELSE SyncTearDown(r, oc)

\* the keys of dict d in insertion order: the caller's item, the
\* __ASYNC_CONTEXT__ entry written by the first entry, then the records
DictKeys(d) == <<"k", "__ASYNC_CONTEXT__">> \o order[d]

\* for context_item in reversed(_CONTAINER_CONTEXT.get().values()): ...
\* x: the dict's records so far, the instances released in order, the
\* providers whose teardown was called (as a set, and in the order of the
\* calls), and the exception that ended the loop
RECURSIVE TearDownLoop(_, _, _, _, _)
TearDownLoop(x, keys, i, mode, oc) ==
  IF i = 0 \/ x.err # "" THEN x
  ELSE IF keys[i] \notin Memoized THEN TearDownLoop(x, keys, i - 1, mode, oc)
  ELSE LET p == keys[i]
           td == TearDownItem(x.recs[p], mode, oc[p])
       IN TearDownLoop(
            [recs |-> [x.recs EXCEPT ![p] = td.r],
             released |-> IF td.ran THEN Append(x.released, x.recs[p].instance)
                          ELSE x.released,
             called |-> x.called \cup {p},
             tornDown |-> Append(x.tornDown, p),
             err |-> td.err],
            keys, i - 1, mode, oc)

ReleaseOracles ==
  {AllOk} \cup {[AllOk EXCEPT ![q] = "raise"] : q \in CtxProviders}

\* _CONTAINER_CONTEXT.reset(self._context_token): the error it raises, if any
ResetError(t, c) ==
  IF token[c].used THEN "TokenUsed"
  ELSE IF token[c].task # t THEN "TokenOtherContext"
  ELSE ""

ScopeState(c) ==
  IF ~token[c].set THEN "unentered" ELSE IF token[c].used THEN "exited" ELSE "active"

\* ExitCall with the reset after the loop instead of in `finally`
ExitCallNoFinally(t, c, mode, oc) ==
  IF ~token[c].set
  THEN [dict |-> Missing, recs |-> recs["global"], released |-> <<>>, skipped |-> {},
        tornDown |-> <<>>,
        loopErr |-> "", err |-> "ScopeNotEntered", cv |-> ctxVar[t], token |-> token[c]]
  ELSE LET d == ctxVar[t]
           x0 == [recs |-> IF d = Missing THEN recs["global"] ELSE recs[d],
                  released |-> <<>>, called |-> {}, tornDown |-> <<>>,
                  err |-> IF d = Missing THEN "LookupError" ELSE ""]
           x == IF d = Missing THEN x0
                ELSE TearDownLoop(x0, DictKeys(d), Len(DictKeys(d)), mode, oc)
           rerr == IF x.err # "" THEN x.err ELSE ResetError(t, c)
       IN [dict |-> d, recs |-> x.recs, released |-> x.released, tornDown |-> x.tornDown,
           skipped |-> IF d = Missing THEN {}
                       ELSE {p \in Providers : recs[d][p].live /\ p \notin x.called},
           loopErr |-> x.err,
           err |-> rerr,
           cv |-> IF rerr = "" THEN token[c].old ELSE ctxVar[t],
           token |-> IF rerr = "" THEN [token[c] EXCEPT !.used = TRUE] ELSE token[c]]

\* what c.__exit__ (mode "sync") / c.__aexit__ (mode "async") called by task t
\* does: the records of the dict it iterates, the instances it released in
\* order, the live records it never reached, the value it leaves in
\* _CONTAINER_CONTEXT, the token, and the exception it ends with
ExitCall(t, c, mode, oc) ==
  IF ~token[c].set
  THEN [dict |-> Missing, recs |-> recs["global"], released |-> <<>>, skipped |-> {},
        tornDown |-> <<>>,
        loopErr |-> "", err |-> "ScopeNotEntered", cv |-> ctxVar[t], token |-> token[c]]
  ELSE LET d == ctxVar[t]
           x0 == [recs |-> IF d = Missing THEN recs["global"] ELSE recs[d],
                  released |-> <<>>, called |-> {}, tornDown |-> <<>>,
                  err |-> IF d = Missing THEN "LookupError" ELSE ""]
           x == IF d = Missing THEN x0
                ELSE TearDownLoop(x0, DictKeys(d), Len(DictKeys(d)), mode, oc)
           rerr == ResetError(t, c)
       IN [dict |-> d, recs |-> x.recs, released |-> x.released, tornDown |-> x.tornDown,
           skipped |-> IF d = Missing THEN {}
                       ELSE {p \in Providers : recs[d][p].live /\ p \notin x.called},
           loopErr |-> x.err,
           err |-> IF rerr # "" THEN rerr ELSE x.err,
           cv |-> IF rerr = "" THEN token[c].old ELSE ctxVar[t],
           token |-> IF rerr = "" THEN [token[c] EXCEPT !.used = TRUE] ELSE token[c]]

ExitFaults(x, oc) == IF x.loopErr = "ReleaseError" THEN 1 ELSE 0

\* Exit without the reset of _CONTAINER_CONTEXT: the token is used up and the
\* task keeps the dict of the scope it left
ExitKeepsContext(t, c, mode) ==
  /\ Idle(t)
  /\ \E oc \in ReleaseOracles :
       LET x == ExitCall(t, c, mode, oc)
       IN /\ ExitFaults(x, oc) = NonOk(oc)
          /\ faults + NonOk(oc) <= MaxFaults
          /\ faults' = faults + NonOk(oc)
          /\ recs' = IF x.dict = Missing THEN recs ELSE [recs EXCEPT ![x.dict] = x.recs]
          /\ token' = [token EXCEPT ![c] = x.token]
  /\ UNCHANGED <<override, order, akey, initial_context, ctxVar, born, frames, thr,
                 nextId, enters>>

Exit(t, c, mode) ==
  /\ Idle(t)
  /\ \E oc \in ReleaseOracles :
       LET x == ExitCall(t, c, mode, oc)
       IN /\ ExitFaults(x, oc) = NonOk(oc)
          /\ faults + NonOk(oc) <= MaxFaults
          /\ faults' = faults + NonOk(oc)
          /\ recs' = IF x.dict = Missing THEN recs ELSE [recs EXCEPT ![x.dict] = x.recs]
          /\ ctxVar' = [ctxVar EXCEPT ![t] = x.cv]
          /\ token' = [token EXCEPT ![c] = x.token]
  /\ UNCHANGED <<override, order, akey, initial_context, born, frames, thr, nextId,
                 enters>>

\* the release action of a Resource: it returns or raises
ReleaseOutcomes == {"ok", "raise"}

\* Resource.tear_down(), called by running code: the teardown of the record
\* the Resource keeps; a raising release action counts as a fault
ResourceTearDown(p) ==
  /\ \E t \in Tasks : Idle(t)
  /\ Kind(p) = "Resource"
  /\ \E oc \in ReleaseOutcomes :
       \E td \in {TearDown(recs["global"][p], oc)} :
         /\ (td.err = "ReleaseError") = (oc = "raise")
         /\ faults + (IF oc = "raise" THEN 1 ELSE 0) <= MaxFaults
         /\ faults' = faults + (IF oc = "raise" THEN 1 ELSE 0)
         /\ recs' = [recs EXCEPT !["global"][p] = td.r]
  /\ UNCHANGED <<override, order, akey, initial_context, token, ctxVar, born, frames,
                 thr, nextId, enters>>

Next ==
  \/ \E t \in Tasks, p \in Providers : AsyncResolve(t, p)
  \/ \E t \in Tasks : Resume(t)
  \/ \E t \in Tasks, p \in Providers : SyncResolveCall(t, p)
  \/ \E t, u \in Tasks : Spawn(t, u)
  \/ \E p \in Providers : SingletonTearDown(p)
  \/ \E p \in AllProviders, v \in Mocks : Override(p, v)
  \/ \E p \in AllProviders : ResetOverride(p)
  \/ \E t \in Tasks, p, q \in AllProviders, v \in Mocks : OverrideContext(t, p, v, q)
  \/ \E t \in Tasks, c \in Scopes, isAsync \in BOOLEAN : Enter(t, c, isAsync)
  \/ \E t \in Tasks, c \in Scopes, mode \in {"sync", "async"} : Exit(t, c, mode)
  \/ \E h \in Threads, p \in GlobalProviders : ThreadCall(h, p)
  \/ \E h \in Threads : ThreadConstruct(h)
  \/ \E t \in Tasks, p \in AllProviders, how \in Hows : InjectCall(t, p, how)
  \/ \E p \in GlobalProviders : ResourceTearDown(p)

Spec == Init /\ [][Next]_vars

\* one task and the scopes: entries, exits, resolutions of the
\* ContextResources, failing creators and releases
NextScopes ==
  \/ \E p \in CtxProviders : AsyncResolve("t1", p)
  \/ Resume("t1")
  \/ \E p \in CtxProviders : SyncResolveCall("t1", p)
  \/ \E c \in Scopes, isAsync \in BOOLEAN : Enter("t1", c, isAsync)
  \/ \E c \in Scopes, mode \in {"sync", "async"} : Exit("t1", c, mode)

SpecScopes == Init /\ [][NextScopes]_vars

\* two tasks of one event loop, inside at most one scope entered by the first
\* before it creates the second
NextTasks ==
  \/ \E t \in Tasks, p \in Providers : AsyncResolve(t, p)
  \/ \E t \in Tasks : Resume(t)
  \/ \E t \in Tasks, p \in Providers : SyncResolveCall(t, p)
  \/ Spawn("t1", "t2")
  \/ \E isAsync \in BOOLEAN : Enter("t1", "c1", isAsync)

SpecTasks == InitPrivate /\ [][NextTasks]_vars

\* the same, with async_resolve as the only way to resolve
NextAsync ==
  \/ \E t \in Tasks, p \in Providers : AsyncResolve(t, p)
  \/ \E t \in Tasks : Resume(t)
  \/ Spawn("t1", "t2")
  \/ \E isAsync \in BOOLEAN : Enter("t1", "c1", isAsync)

SpecAsync == InitPrivate /\ [][NextAsync]_vars

\* one task resolves the memoizing providers, inside at most one scope, while
\* overrides are set and reset (by the other task when the first is suspended)
NextOverride ==
  \/ \E p \in Providers : AsyncResolve("t1", p)
  \/ Resume("t1")
  \/ \E p \in Providers : SyncResolveCall("t1", p)
  \/ \E p \in Providers, v \in Mocks : Override(p, v)
  \/ \E p \in Providers : ResetOverride(p)
  \/ \E p \in Providers, v \in Mocks : OverrideContext("t1", p, v, p)
  \/ Enter("t1", "c1", TRUE)

SpecOverride == InitPrivate /\ [][NextOverride]_vars

\* the providers that keep no instance and the Resources they depend on
FactoryProviders == Stateless \cup {"RA", "RS"}

NextFactories ==
  \/ \E p \in FactoryProviders : AsyncResolve("t1", p)
  \/ Resume("t1")
  \/ \E p \in FactoryProviders : SyncResolveCall("t1", p)
  \/ Spawn("t1", "t2")
  \/ \E p \in FactoryProviders, v \in Mocks : Override(p, v)
  \/ \E p \in FactoryProviders : ResetOverride(p)
  \/ \E p, q \in FactoryProviders, v \in Mocks : OverrideContext("t1", p, v, q)

SpecFactories == InitPrivate /\ [][NextFactories]_vars

\* two tasks resolve the Singleton and the Resource it takes; the Singleton is
\* torn down
NextSingleton ==
  \/ \E t \in Tasks, p \in {"SG", "RA"} : AsyncResolve(t, p)
  \/ \E t \in Tasks : Resume(t)
  \/ \E t \in Tasks : SyncResolveCall(t, "SG")
  \/ Spawn("t1", "t2")
  \/ SingletonTearDown("SG")

SpecSingleton == InitPrivate /\ [][NextSingleton]_vars

\* the tasks of the loop construct the async Resource; threads call sync_resolve
NextThreads ==
  \/ \E t \in Tasks : AsyncResolve(t, "RA")
  \/ \E t \in Tasks : Resume(t)
  \/ \E h \in Threads, p \in GlobalProviders : ThreadCall(h, p)
  \/ \E h \in Threads : ThreadConstruct(h)

SpecThreads == InitPrivate /\ [][NextThreads]_vars

\* the container_context object that task t enters and exits in SpecChains
OwnScope(t) == IF t = "t1" THEN "c1" ELSE "c2"

\* two independent call chains (the second task is created outside every
\* scope); each enters and exits a container_context of its own, possibly
\* several times, and resolves the ContextResources in between
NextChains ==
  \/ ctxVar["t1"] = Missing /\ Spawn("t1", "t2")
  \/ \E t \in Tasks, isAsync \in BOOLEAN :
       ScopeState(OwnScope(t)) # "active" /\ Enter(t, OwnScope(t), isAsync)
  \/ \E t \in Tasks, mode \in {"sync", "async"} : Exit(t, OwnScope(t), mode)
  \/ \E t \in Tasks, p \in CtxProviders : AsyncResolve(t, p)
  \/ \E t \in Tasks : Resume(t)
  \/ \E t \in Tasks, p \in CtxProviders : SyncResolveCall(t, p)

SpecChains == InitPrivate /\ [][NextChains]_vars

\* the same two call chains, their scopes built from one initial_context
SpecShared == InitShared /\ [][NextChains]_vars

\* one task uses the scopes as `with` blocks do: c2 is entered inside c1 and
\* exited before it; the ContextResources are resolved and overridden
NextNested ==
  \/ \E isAsync \in BOOLEAN :
       /\ ScopeState("c1") # "active" /\ ScopeState("c2") # "active"
       /\ Enter("t1", "c1", isAsync)
  \/ \E isAsync \in BOOLEAN :
       /\ ScopeState("c1") = "active" /\ ScopeState("c2") # "active"
       /\ Enter("t1", "c2", isAsync)
  \/ \E mode \in {"sync", "async"} :
       ScopeState("c2") = "active" /\ Exit("t1", "c2", mode)
  \/ \E mode \in {"sync", "async"} :
       /\ ScopeState("c1") = "active" /\ ScopeState("c2") # "active"
       /\ Exit("t1", "c1", mode)
  \/ \E p \in CtxProviders : AsyncResolve("t1", p)
  \/ Resume("t1")
  \/ \E p \in CtxProviders : SyncResolveCall("t1", p)
  \/ \E p \in CtxProviders, v \in Mocks : Override(p, v)
  \/ \E p \in CtxProviders : ResetOverride(p)

SpecNested == InitPrivate /\ [][NextNested]_vars

\* the providers that take a provider as argument, and the Resources they take
ArgProviders == {"SG", "FA", "AF", "RD", "RA", "RS"}

\* two tasks resolve them
NextArgs ==
  \/ \E t \in Tasks, p \in ArgProviders : AsyncResolve(t, p)
  \/ \E t \in Tasks : Resume(t)
  \/ \E p \in ArgProviders : SyncResolveCall("t1", p)
  \/ Spawn("t1", "t2")

SpecArgs == InitPrivate /\ [][NextArgs]_vars

\* the providers used as parameter defaults of injected functions
InjectProviders == {"SG", "RS", "FA", "OB"}

\* two tasks resolve the container-level providers; the first calls injected
\* sync functions
NextInject ==
  \/ \E t \in Tasks, p \in InjectProviders \cup {"RA"} : AsyncResolve(t, p)
  \/ \E t \in Tasks : Resume(t)
  \/ \E p \in InjectProviders : SyncResolveCall("t1", p)
  \/ Spawn("t1", "t2")
  \/ \E p \in InjectProviders, how \in Hows : InjectCall("t1", p, how)

SpecInject == InitPrivate /\ [][NextInject]_vars

\* two tasks resolve the container-level Resources, which running code tears
\* down, also while a construction is suspended
NextTearDown ==
  \/ \E t \in Tasks, p \in {"RA", "RS"} : AsyncResolve(t, p)
  \/ \E t \in Tasks : Resume(t)
  \/ \E p \in {"RA", "RS"} : SyncResolveCall("t1", p)
  \/ Spawn("t1", "t2")
  \/ \E p \in {"RA", "RS"} : ResourceTearDown(p)

SpecTearDown == InitPrivate /\ [][NextTearDown]_vars

\* the Singleton and the Resources of the container
LiveProviders == {"SG", "RA", "RS"}

\* two tasks call async_resolve on them, again and again
NextLive ==
  \/ \E t \in Tasks, p \in LiveProviders : AsyncResolve(t, p)
  \/ \E t \in Tasks : Resume(t)
  \/ Spawn("t1", "t2")

\* the event loop runs every task that is ready, and every creator that was
\* started reaches its yield or raises
SpecLive ==
  InitPrivate /\ [][NextLive]_vars /\ WF_vars(Resume("t1")) /\ WF_vars(Resume("t2"))

\* ------------------------------------------------------------ properties
\* the ways an async_resolve of task t can end in the step it takes next from
\* the current state: a first call that runs through, or a resumption
AsyncEnds(t) ==
  {m \in (IF Idle(t)
          THEN UNION {{AsyncCall(t, p, oc) : oc \in Oracles(p)} : p \in Providers}
          ELSE IF CanResume(t)
          THEN {Resumed(t, oc) : oc \in Oracles(frames[t][1].p)}
          ELSE {}) :
     m.fr = <<>> /\ m.faults <= MaxFaults /\ m.nextId <= MaxInst + 1}

\* C1: when several tasks of one loop call async_resolve on the same Singleton,
\* Resource or ContextResource (in one shared scope) while it holds no
\* instance, the factory / creator is invoked exactly once and every call
\* returns the instance it produced: a record none of whose constructions
\* raised or yielded None was constructed at most once, exactly once when it
\* holds an instance, and an async_resolve that returns from such a record
\* returns the instance the record holds.
C1_OnceForAllTasks ==
  /\ \A loc \in Locs, p \in Providers :
       recs[loc][p].reg /\ ~recs[loc][p].faulty =>
         /\ recs[loc][p].starts <= 1
         /\ recs[loc][p].instance # None => recs[loc][p].starts = 1
  /\ \A t \in Tasks : \A m \in AsyncEnds(t) :
       m.out.k = "val" /\ m.out.loc # "none" =>
         LET r == m.recs[m.out.loc][m.out.p]
         IN /\ m.out.v = r.instance
            /\ ~r.faulty => r.starts = 1 /\ r.instance # None

\* the second task waited for the lock of the record the first was
\* constructing; the lock is free again, and the second returns, without
\* constructing, the instance the first stored
C1_Witness ==
  /\ frames["t2"] # <<>>
  /\ frames["t2"][Len(frames["t2"])].pc = "wait"
  /\ frames["t1"] = <<>>
  /\ LET f == frames["t2"][1]
         m == Resumed("t2", AllOk)
     IN /\ Len(frames["t2"]) = 1
        /\ recs[f.loc][f.p].instance # None
        /\ recs[f.loc][f.p].starts = 1
        /\ m.fr = <<>>
        /\ m.out.v = recs[f.loc][f.p].instance
        /\ m.recs = recs

\* C2: whatever the mix of sync and async callers, a memoizing provider is
\* constructed at most once: no record, none of whose constructions raised or
\* yielded None, has had its factory / creator invoked twice.
C2_AtMostOneConstruction ==
  \A loc \in Locs, p \in Providers :
    recs[loc][p].reg /\ ~recs[loc][p].faulty => recs[loc][p].starts <= 1

\* the caller t as it is right after entering scope c
EnteredMachine(t, c, isAsync) ==
  [Machine(t, initial_context[c], <<>>) EXCEPT
     !.akey[initial_context[c]] = IF isAsync THEN "true" ELSE "false"]

\* the caller t as it is right after the exit x of a scope
ExitedMachine(t, x) ==
  [Machine(t, x.cv, <<>>) EXCEPT
     !.recs = IF x.dict = Missing THEN recs ELSE [recs EXCEPT ![x.dict] = x.recs]]

\* scope c is the innermost scope of task t
Innermost(t, c) ==
  ScopeState(c) = "active" /\ token[c].task = t /\ ctxVar[t] = initial_context[c]

\* C3: the same ContextResource resolved in two sequentially entered,
\* non-nested scopes runs its creator once per scope and yields two distinct
\* instances, and resolutions inside one scope run it once: when the task is
\* outside every scope, one scope was exited and another is entered next, the
\* first resolution there runs the creator and returns a new instance; and no
\* record was constructed twice.
C3_ScopeIsolation ==
  /\ \A c \in Scopes :
       /\ ScopeState(c) = "unentered" /\ ctxVar["t1"] = Missing /\ Idle("t1")
       /\ \E c0 \in Scopes \ {c} : ScopeState(c0) = "exited"
       /\ nextId <= MaxInst
       => LET m == SyncResolve(EnteredMachine("t1", c, FALSE), "CB", AllOk)
          IN m.sr.k = "val" /\ m.sr.v = nextId /\ m.nextId = nextId + 1
  /\ \A d \in Dicts, p \in Providers :
       recs[d][p].reg /\ ~recs[d][p].faulty => recs[d][p].starts <= 1

\* C4: a ContextResource resolved in an inner scope is materialized there, a
\* different instance from the outer scope's; exiting the inner scope tears
\* down the inner scope's records only, and the outer scope then still returns
\* its instance without running the creator.
C4_NestedShadowing ==
  /\ \A c \in Scopes :
       /\ ScopeState(c) = "unentered" /\ ctxVar["t1"] # Missing /\ Idle("t1")
       /\ recs[ctxVar["t1"]]["CB"].instance # None
       /\ nextId <= MaxInst
       => LET m == SyncResolve(EnteredMachine("t1", c, FALSE), "CB", AllOk)
          IN m.sr.k = "val" /\ m.sr.v = nextId
  /\ \A c \in Scopes :
       Innermost("t1", c) /\ token[c].old # Missing /\ Idle("t1") =>
         \A mode \in {"sync", "async"}, oc \in ReleaseOracles, p \in CtxProviders :
           LET x == ExitCall("t1", c, mode, oc)
               outer == recs[token[c].old][p]
               m == SyncLookup(ExitedMachine("t1", x), p)
           IN outer.live /\ outer.instance # None =>
                /\ m.recs[token[c].old][p] = outer
                /\ m.sr.k = "val" /\ m.sr.v = outer.instance

\* each element of s is greater than the next
Decreasing(s) == \A i \in 1..(Len(s) - 1) : s[i] > s[i + 1]

\* C5: teardown is LIFO relative to construction: when no creator and no
\* release fails, the exit of a scope releases the instances it holds in the
\* reverse of the order in which their constructions completed (instances are
\* numbered in that order), also when one was resolved as an argument of the
\* other.
C5_LifoTeardown ==
  \A c \in Scopes :
    Innermost("t1", c) /\ Idle("t1") /\ faults = 0 =>
      \A mode \in {"sync", "async"} :
        Decreasing(ExitCall("t1", c, mode, AllOk).released)

\* C6: when the release action of one record raises during the exit of a
\* scope, the release action of every other record of the scope is still
\* attempted: no live record is left without its teardown being called.
C6_ExhaustiveTeardown ==
  \A c \in Scopes :
    Innermost("t1", c) /\ Idle("t1") =>
      \A mode \in {"sync", "async"}, oc \in ReleaseOracles :
        LET x == ExitCall("t1", c, mode, oc)
        IN x.loopErr = "ReleaseError" => x.skipped = {}

\* C7: the exit of an Active scope, by the task that entered it, resets the
\* context variable to its value before the entry and uses up the token, on
\* every path, also when a teardown raised.
C7_ResetOnEveryPath ==
  \A c \in Scopes :
    ScopeState(c) = "active" =>
      \A mode \in {"sync", "async"}, oc \in ReleaseOracles :
        LET x == ExitCall(token[c].task, c, mode, oc)
        IN x.cv = token[c].old /\ x.token.used

\* scope c1 was exited and its exit raised (the record whose release raised
\* keeps its instance on an emptied stack); the task is back outside every
\* scope, which is where it was before the entry
C7_Witness ==
  /\ ScopeState("c1") = "exited" /\ ScopeState("c2") = "unentered"
  /\ initial_context["c2"] # initial_context["c1"]
  /\ \E p \in CtxProviders :
       LET r == recs[initial_context["c1"]][p]
       IN r.reg /\ r.instance # None /\ r.stack # "none" /\ ~r.live
  /\ token["c1"].old = Missing
  /\ ctxVar["t1"] = Missing

\* C8: __exit__ / __aexit__ of a scope that was never entered, or that was
\* already exited, fails with the scope-not-active error and does nothing else.
C8_ExitWhenNotActive ==
  \A c \in Scopes :
    ScopeState(c) # "active" /\ Idle("t1") =>
      \A mode \in {"sync", "async"}, oc \in ReleaseOracles :
        LET x == ExitCall("t1", c, mode, oc)
        IN x.err = "ScopeNotEntered" /\ x.released = <<>>

\* the providers whose creator is an async generator
AsyncCreated == {p \in Providers : Kind(p) # "Singleton" /\ IsCreatorAsync(p)}

\* C9 as claimed: with no override, sync_resolve of a Resource or
\* ContextResource with an async creator raises and never returns a value, the
\* synchronous-resolution error whenever the record can be looked up, also
\* after an async_resolve has materialized the instance.
C9_SyncAlwaysRaises ==
  \A t \in Tasks, p \in AsyncCreated :
    Idle(t) /\ ~HasOverride(Machine(t, ctxVar[t], <<>>), p) =>
      LET m == SyncCall(t, p, AllOk)
      IN /\ m.sr.k = "err"
         /\ FetchLoc(m, p) # "none" => m.sr.e = "SyncOnAsync"

\* C9: with no override, sync_resolve of a Resource or ContextResource with an
\* async creator never runs the creator: it returns the instance when an
\* earlier async_resolve has materialized it, and otherwise raises, the
\* context-not-set error for a ContextResource outside every scope and the
\* synchronous-resolution error in every other case.
C9_SyncNeverCreatesAsync ==
  \A t \in Tasks, p \in AsyncCreated :
    Idle(t) /\ ~HasOverride(Machine(t, ctxVar[t], <<>>), p) =>
      LET m == SyncCall(t, p, AllOk)
          loc == FetchLoc(m, p)
      IN /\ m.nextId = nextId
         /\ loc = "none" => m.sr = ErrRes("ContextNotSet")
         /\ loc # "none" /\ recs[loc][p].instance = None => m.sr = ErrRes("SyncOnAsync")
         /\ loc # "none" /\ recs[loc][p].instance # None =>
              m.sr.k = "val" /\ m.sr.v = recs[loc][p].instance /\ m.recs = recs

\* an async_resolve has materialized the async Resource, and a sync_resolve
\* by the other task returns that instance
C9_Witness ==
  /\ recs["global"]["RA"].instance # None
  /\ recs["global"]["RA"].stack = "async"
  /\ Idle("t2")
  /\ SyncCall("t2", "RA", AllOk).sr.v = recs["global"]["RA"].instance

\* C10: async_resolve of a ContextResource with an async creator, in a scope
\* that was entered synchronously, raises the async-in-sync-context error and
\* does not start the creator.
C10_AsyncInSyncScope ==
  \A p \in CtxProviders :
    /\ IsCreatorAsync(p) /\ Idle("t1")
    /\ ctxVar["t1"] # Missing /\ akey[ctxVar["t1"]] = "false"
    /\ ~HasOverride(Machine("t1", ctxVar["t1"], <<>>), p)
    => \A oc \in Oracles(p) :
         LET m == AsyncCall("t1", p, oc)
         IN /\ m.fr = <<>> /\ m.out = ErrRes("AsyncInSync")
            /\ m.recs[ctxVar["t1"]][p].starts = recs[ctxVar["t1"]][p].starts

\* C11: while an override is set on a Singleton, Resource or ContextResource,
\* sync_resolve and async_resolve return the override value at once, without
\* calling the factory or creator, without taking the lock and without looking
\* up a scope, also when no scope is active; with the override reset, a
\* ContextResource outside every scope fails with the context-not-set error.
C11_OverridePrecedence ==
  \A p \in Providers :
    Idle("t1") =>
      \A oc \in Oracles(p) :
        LET s == SyncCall("t1", p, oc)
            a == AsyncCall("t1", p, oc)
        IN /\ override[p] # None =>
                /\ s.sr = OkRes(override[p]) /\ s.calls = <<>>
                /\ s.recs = recs /\ s.order = order
                /\ a.fr = <<>> /\ a.out = OkRes(override[p]) /\ a.calls = <<>>
                /\ a.recs = recs /\ a.order = order
           /\ override[p] = None /\ p \in CtxProviders /\ ctxVar["t1"] = Missing =>
                /\ s.sr = ErrRes("ContextNotSet")
                /\ a.fr = <<>> /\ a.out = ErrRes("ContextNotSet")

\* C12: for every value other than None, also one that tests false, while the
\* value is the override of a Factory, AsyncFactory, Resource, ContextResource
\* or Singleton, every sync_resolve and async_resolve of it returns the value.
C12_EveryValueOverrides ==
  \A p \in AllProviders :
    /\ Kind(p) \in {"Factory", "AsyncFactory", "Resource", "ContextResource", "Singleton"}
    /\ Idle("t1") /\ override[p] # None
    => \A oc \in Oracles(p) :
         LET s == SyncCall("t1", p, oc)
             a == AsyncCall("t1", p, oc)
         IN /\ s.sr = OkRes(override[p])
            /\ a.fr = <<>> /\ a.out = OkRes(override[p])

\* C13: while an ordinary (non-None) mock is the override of a provider of any
\* kind, Object and Selector included, sync_resolve and async_resolve return
\* the mock.
C13_EveryKindOverrides ==
  \A p \in AllProviders :
    Idle("t1") /\ override[p] = Mock
    => \A oc \in Oracles(p) :
         LET s == SyncCall("t1", p, oc)
             a == AsyncCall("t1", p, oc)
         IN /\ s.sr = OkRes(Mock)
            /\ a.fr = <<>> /\ a.out = OkRes(Mock)

\* the providers with an async_resolve call of task t in flight
InFlight(t) == {frames[t][i].p : i \in 1..Len(frames[t])}

\* the resumption of task t as it would run with no override on the providers
\* that have a call in flight
ResumedUnseen(t, oc) ==
  LET f == frames[t][Len(frames[t])]
      m0 == [Machine(t, ctxVar[t], frames[t]) EXCEPT
               !.ov = [q \in AllProviders |-> IF q \in InFlight(t) THEN None ELSE override[q]]]
  IN Run(IF f.pc = "wait" THEN Acquire(m0, f.loc)
         ELSE SetTop(m0, [f EXCEPT !.pc = "created"]), oc)

\* C14 as claimed: when a mock is set as the override of a provider while an
\* async_resolve of that provider is suspended, the call returns the mock when
\* it completes.
C14_InFlightSeesOverride ==
  \A t \in Tasks :
    CanResume(t) /\ override[frames[t][1].p] = Mock =>
      \A oc \in Oracles(frames[t][1].p) :
        LET m == Resumed(t, oc)
        IN m.fr = <<>> /\ m.out.k = "val" => m.out.v = Mock

\* C14: an async_resolve reads the override once, when it starts.  An override
\* set on a provider while a call of it is suspended changes nothing for that
\* call: it resumes, constructs, stores and returns exactly as with no
\* override on the provider.
C14_InFlightIgnoresOverride ==
  \A t \in Tasks :
    CanResume(t) =>
      \A oc \in Oracles(frames[t][1].p) :
        LET m == Resumed(t, oc)
            u == ResumedUnseen(t, oc)
        IN m.out = u.out /\ m.fr = u.fr /\ m.recs = u.recs /\ m.calls = u.calls

\* a mock was set on the async Resource while its creator was running; the
\* resumed call returns the instance it constructs
C14_Witness ==
  /\ CanResume("t1") /\ frames["t1"][1].p = "RA"
  /\ override["RA"] = Mock
  /\ Resumed("t1", AllOk).out.k = "val"
  /\ Resumed("t1", AllOk).out.v = nextId

\* the calls of the factory of p among the factory and creator calls cs
CallsOf(cs, p) == {i \in 1..Len(cs) : cs[i].p = p}

\* the factory of p was called, each time with the override value for every
\* argument provider that has an override, and no factory or creator of such
\* an argument provider ran
PassesOverrides(m, p) ==
  /\ CallsOf(m.calls, p) # {}
  /\ \A i \in 1..Len(Args(p)) :
       override[Args(p)[i]] # None =>
         /\ \A c \in CallsOf(m.calls, p) : m.calls[c].args[i] = override[Args(p)[i]]
         /\ CallsOf(m.calls, Args(p)[i]) = {}
         /\ m.recs["global"][Args(p)[i]] = recs["global"][Args(p)[i]]

\* C15: resolving a Factory whose arguments are providers passes to the factory
\* the override value of every argument provider that has an override, and does
\* not construct that argument.
C15_DependantSeesOverride ==
  \A p \in AllProviders :
    Kind(p) = "Factory" /\ Idle("t1") /\ override[p] = None =>
      /\ PassesOverrides(SyncCall("t1", p, AllOk), p)
      /\ PassesOverrides(AsyncCall("t1", p, AllOk), p)

\* C16: `with p.override_context(v)` leaves the override None after the block,
\* whether the block ends normally or raises; a resolution of p inside the
\* block returns v, and one after the block does not (no provider p depends on
\* being overridden).
C16_OverrideContext ==
  \A p \in AllProviders, v \in Mocks :
    Idle("t1") =>
      \A oc \in Oracles(p) :
        LET m == OverrideContextCall("t1", p, v, p, oc)
        IN /\ m.ov[p] = None
           /\ m.sr = OkRes(v)
           /\ (\A q \in Deps(p) \ {p} : override[q] = None) =>
                SyncResolve(m, p, AllOk).sr # OkRes(v)

\* the machine m after reset_override() of p, about to resolve again
AfterReset(m, p, fr) ==
  [m EXCEPT !.ov[p] = None, !.fr = fr, !.sr = NoRes, !.out = NoRes, !.acc = <<>>,
            !.calls = <<>>, !.resolved = <<>>]

\* C17: override state and memoized state are independent.  override() and
\* reset_override() leave every record and every scope registry as they are; a
\* resolution answered from an override changes no record, no registry and
\* starts no creator; and after reset_override() a resolution gives the result
\* and leaves the records it would have given and left with the override
\* never set.
C17_OverrideIndependent ==
  /\ [](\A p \in Providers :
         Idle("t1") /\ HasOverride(Machine("t1", ctxVar["t1"], <<>>), p) =>
           \A oc \in Oracles(p) :
             LET s == SyncCall("t1", p, oc)
                 a == AsyncCall("t1", p, oc)
                 m0 == Machine("t1", ctxVar["t1"], <<>>)
             IN /\ s.recs = recs /\ s.order = order /\ s.nextId = nextId
                /\ a.fr = <<>>
                /\ a.recs = recs /\ a.order = order /\ a.nextId = nextId
                /\ SyncResolve(AfterReset(s, p, <<>>), p, oc)
                     = SyncResolve(AfterReset(m0, p, <<>>), p, oc)
                /\ Run(AfterReset(a, p, <<NewFrame(p)>>), oc)
                     = Run(AfterReset(m0, p, <<NewFrame(p)>>), oc))
  /\ [][(\/ \E p \in Providers, v \in Mocks : Override(p, v)
          \/ \E q \in Providers : ResetOverride(q))
          => recs' = recs /\ order' = order /\ nextId' = nextId]_vars

\* inside a scope the ContextResource CB holds its instance and is overridden:
\* a resolution returns the mock, and the instance stays in the record
C17_Witness ==
  /\ ctxVar["t1"] # Missing /\ Idle("t1")
  /\ override["CB"] = Mock
  /\ recs[ctxVar["t1"]]["CB"].instance > 0
  /\ SyncCall("t1", "CB", AllOk).sr = OkRes(Mock)
  /\ SyncCall("t1", "CB", AllOk).recs[ctxVar["t1"]]["CB"].instance
       = recs[ctxVar["t1"]]["CB"].instance

\* a resolution run to its end with every creator it awaits resumed at once;
\* it stops early only at a lock that another task holds
RECURSIVE Drive(_, _)
Drive(m, oc) ==
  Bind(Run(m, oc),
       LAMBDA r :
         IF r.fr = <<>> \/ Top(r).pc = "wait" THEN r
         ELSE Drive(SetTop(r, [Top(r) EXCEPT !.pc = "created"]), oc))

\* the oracles in which a creator or factory raises
Raising(p) == {oc \in Oracles(p) : \E q \in Providers : oc[q] = "raise"}

\* after the failed resolution m the record of p is empty and the caller
\* holds its lock no longer
LeftEmpty(m, p) ==
  LET r == m.recs[FetchLoc(m, p)][p]
  IN r.instance = None /\ ~r.live /\ r.lock # m.t

\* a resolution of p after m constructs: the creator is started once more and
\* the record holds the instance that is returned
RetryConstructs(m, p, res) ==
  LET loc == FetchLoc(m, p)
  IN /\ res.sr.k = "val" \/ res.out.k = "val"
     /\ res.recs[loc][p].instance = m.nextId + Cardinality({q \in Deps(p) \ {p} :
                                         res.recs[FetchLoc(m, q)][q].starts
                                           # m.recs[FetchLoc(m, q)][q].starts})
     /\ res.recs[loc][p].starts = m.recs[loc][p].starts + 1
     /\ res.recs[loc][p].lock # m.t

C19_InstanceIffStack ==
  \A loc \in Locs, p \in Providers :
    Kind(p) # "Singleton" /\ recs[loc][p].reg /\ recs[loc][p].lock = Free =>
      (recs[loc][p].instance # None <=> recs[loc][p].live)

\* the resolutions of the Singleton p by task t that end in the next step: a
\* sync_resolve or an async_resolve that starts now, or a suspended
\* async_resolve of p that is resumed
SingletonEnds(t, p) ==
  {m \in (IF Idle(t)
          THEN {[SyncCall(t, p, AllOk) EXCEPT !.out = SyncCall(t, p, AllOk).sr],
                AsyncCall(t, p, AllOk)}
          ELSE IF CanResume(t) /\ frames[t][1].p = p THEN {Resumed(t, AllOk)}
          ELSE {}) : m.fr = <<>>}

\* C20: from the first successful resolution of a Singleton until tear_down,
\* every sync_resolve and async_resolve returns the cached instance and the
\* factory is not called; a resolution after tear_down calls the factory
\* once and caches the new instance.
C20_SingletonLifecycle ==
  \A p \in Providers : Kind(p) = "Singleton" =>
    LET r == recs["global"][p]
    IN /\ r.instance # None =>
            \A t \in Tasks : \A m \in SingletonEnds(t, p) :
              /\ m.out = FromRec(Machine(t, ctxVar[t], <<>>), "global", p)
              /\ m.recs["global"][p] = r
       /\ r.instance = None /\ r.starts = 0 /\ r.lock = Free =>
            \A t \in Tasks :
              Idle(t) =>
                LET b == Drive(Machine(t, ctxVar[t], <<NewFrame(p)>>), AllOk)
                IN b.fr = <<>> =>
                     /\ b.out.k = "val" /\ b.out.v = b.recs["global"][p].instance
                     /\ b.out.v # None /\ b.recs["global"][p].starts = 1

\* C21: the active scope is per call chain.  With two independent tasks that
\* each enter a container_context of their own and run interleaved, a task
\* inside its scope sees that scope: fetch_context_item reads its initial
\* context, and a resolution of a ContextResource reads and writes the records
\* of that scope only and returns an instance held there; a task outside its
\* scope sees no scope, whatever the other task has entered.
C21_ScopePerCallChain ==
  \A t \in Tasks :
    t \in born /\ Idle(t) =>
      LET d == initial_context[OwnScope(t)]
      IN IF ScopeState(OwnScope(t)) = "active"
         THEN /\ FetchContextItem(ctxVar[t], "k", Default) = OkRes(Stored(d, "k"))
              /\ \A p \in CtxProviders : \A oc \in Oracles(p) :
                   \A m \in {SyncCall(t, p, oc),
                              Drive(Machine(t, ctxVar[t], <<NewFrame(p)>>), oc)} :
                     /\ \A e \in Dicts \ {d} : m.recs[e] = recs[e] /\ m.order[e] = order[e]
                     /\ m.sr.k = "val" => m.sr.loc = d
                     /\ m.out.k = "val" => m.out.loc = d
         ELSE /\ FetchContextItem(ctxVar[t], "k", Default) = ErrRes("ContextNotSet")
              /\ \A p \in CtxProviders :
                   /\ SyncCall(t, p, AllOk).sr = ErrRes("ContextNotSet")
                   /\ AsyncCall(t, p, AllOk).out = ErrRes("ContextNotSet")

\* both tasks are inside their scopes, the first holds an instance of CB in
\* its scope, and the second, resolving CB, constructs one in its own
C21_Witness ==
  /\ ScopeState("c1") = "active" /\ ScopeState("c2") = "active"
  /\ Idle("t1") /\ Idle("t2")
  /\ ctxVar["t1"] = "d1" /\ ctxVar["t2"] = "d2"
  /\ recs["d1"]["CB"].instance # None
  /\ recs["d2"]["CB"].instance = None
  /\ SyncCall("t2", "CB", AllOk).sr.v = nextId
  /\ SyncCall("t2", "CB", AllOk).recs["d2"]["CB"].instance = nextId

\* C22: every entry of a scope gets a registry of its own: two tasks that are
\* each inside a scope entry of their own never have the same registry, also
\* when both scopes were built from the same initial_context; so a resolution
\* in one never returns an instance held for the other, and the exit of one
\* never tears down the records the other uses.
C22_PrivateRegistry ==
  \A t, u \in Tasks :
    /\ t # u
    /\ ScopeState(OwnScope(t)) = "active" /\ ScopeState(OwnScope(u)) = "active"
    /\ Idle(t)
    => /\ ctxVar[t] # ctxVar[u]
       /\ \A mode \in {"sync", "async"} :
            ExitCall(t, OwnScope(t), mode, AllOk).dict # ctxVar[u]

\* the innermost scope that is active in SpecNested, "none" outside both
InnermostNested ==
  IF ScopeState("c2") = "active" THEN "c2"
  ELSE IF ScopeState("c1") = "active" THEN "c1"
  ELSE "none"

\* C23: fetch_context_item(key, default) inside an active scope returns the
\* value under key in the initial context of the innermost active scope, the
\* default when the key is not there (the enclosing scope is not consulted);
\* outside every active scope it raises the context-not-set error.
C23_FetchContextItem ==
  \A key \in Keys :
    FetchContextItem(ctxVar["t1"], key, Default) =
      IF InnermostNested = "none" THEN ErrRes("ContextNotSet")
      ELSE IF HasKey(initial_context[InnermostNested], key)
      THEN OkRes(Stored(initial_context[InnermostNested], key))
      ELSE OkRes(Default)

\* the task is back in the outer scope after the exit of the inner one, whose
\* teardown raised: the key is read from the outer scope's initial context
C23_Witness ==
  /\ ScopeState("c1") = "active" /\ ScopeState("c2") = "exited"
  /\ faults = 1
  /\ \E p \in CtxProviders : recs["d2"][p].instance # None /\ recs["d2"][p].stack # "none"
  /\ FetchContextItem(ctxVar["t1"], "k", Default) = OkRes(Item1)
  /\ FetchContextItem(ctxVar["t1"], "absent", Default) = OkRes(Default)

\* the resolution m started no factory or creator and left every record and
\* registry as it was
Untouched(m) ==
  m.calls = <<>> /\ m.recs = recs /\ m.order = order /\ m.nextId = nextId

\* C24: with no override set on it and no scope active, sync_resolve and
\* async_resolve of a ContextResource (sync or async creator) raise the
\* context-not-set error; no creator is started and no record is made.
C24_NoScopeRaises ==
  \A p \in CtxProviders :
    InnermostNested = "none" /\ Idle("t1") /\ override[p] = None =>
      \A oc \in Oracles(p) :
        /\ \A m \in {SyncCall("t1", p, oc)} :
             m.sr = ErrRes("ContextNotSet") /\ Untouched(m)
        /\ \A m \in {AsyncCall("t1", p, oc)} :
             m.fr = <<>> /\ m.out = ErrRes("ContextNotSet") /\ Untouched(m)

\* the task has left the scope in which CA and CB were constructed, by an
\* exit whose teardown raised; the ContextResource its creator takes is
\* overridden, and CA still raises the context-not-set error
C24_Witness ==
  /\ ScopeState("c1") = "exited" /\ ScopeState("c2") # "active" /\ Idle("t1")
  /\ recs["d1"]["CB"].starts > 0 /\ faults = 1
  /\ override["CB"] = Mock /\ override["CA"] = None
  /\ SyncCall("t1", "CA", AllOk).sr = ErrRes("ContextNotSet")
  /\ AsyncCall("t1", "CA", AllOk).out = ErrRes("ContextNotSet")

\* in the resolution m of p every argument provider was resolved by the method
\* via, and when the factory or creator of p was called its argument providers
\* had been resolved once each, in order
ResolvedVia(m, p, via) ==
  /\ \A i \in 1..Len(m.resolved) : m.resolved[i].via = via
  /\ CallsOf(m.calls, p) # {} =>
       /\ Len(m.resolved) = Len(Args(p))
       /\ \A i \in 1..Len(m.resolved) : m.resolved[i].p = Args(p)[i]

\* C25: during one construction every argument provider is resolved exactly
\* once and in the caller's mode: a sync_resolve of a provider with provider
\* arguments (Factory, AsyncFactory, Singleton, Resource, ContextResource)
\* calls sync_resolve on them, an async_resolve calls async_resolve on them.
C25_ArgsInCallerMode ==
  \A t \in Tasks, p \in AllProviders :
    Idle(t) /\ Args(p) # <<>> =>
      \A oc \in Oracles(p) :
        /\ ResolvedVia(SyncCall(t, p, oc), p, "sync")
        /\ ResolvedVia(Drive(Machine(t, ctxVar[t], <<NewFrame(p)>>), oc), p, "async")

\* C26: a sync function decorated with inject, called without the parameter
\* whose default is a provider, is invoked with that parameter bound to the
\* provider's sync_resolve() result (the call does to the records what
\* sync_resolve does); a parameter supplied positionally is passed on as given
\* and nothing is resolved.
C26_InjectSync ==
  \A p \in InjectProviders :
    Idle("t1") =>
      \A oc \in Oracles(p) :
        /\ \A m \in {InjectToSync(Machine("t1", ctxVar["t1"], <<>>), p, "no", oc)},
              s \in {SyncCall("t1", p, oc)} :
             m.sr = s.sr /\ m.recs = s.recs /\ m.calls = s.calls
        /\ \A m \in {InjectToSync(Machine("t1", ctxVar["t1"], <<>>), p, "pos", oc)} :
             m.sr = OkRes(Given) /\ Untouched(m)

\* the sequence s back to front
Reverse(s) == [i \in 1..Len(s) |-> s[Len(s) + 1 - i]]

\* C27: the exit of a scope (sync or async) tears down the records registered
\* in the scope's registry, all of them, in exactly the reverse of the order in
\* which they were registered; the entries that are no records are skipped.
C27_ReverseRegistrationOrder ==
  \A c \in Scopes :
    Innermost("t1", c) /\ Idle("t1") =>
      \A mode \in {"sync", "async"}, oc \in ReleaseOracles :
        ExitCall("t1", c, mode, oc).tornDown = Reverse(order[initial_context[c]])

\* C28: sync_resolve never waits.  In every state, also while the creation
\* lock of the provider is held by an async_resolve suspended in the middle of
\* its construction, a sync_resolve call ends in the step in which it starts,
\* with a value or an exception; it leaves no suspended frame and takes,
\* releases and waits for no lock.
C28_SyncNeverWaits ==
  \A t \in Tasks, p \in Providers :
    Idle(t) =>
      \A oc \in Oracles(p) :
        \A m \in {SyncCall(t, p, oc)} :
          /\ m.sr.k \in {"val", "err"}
          /\ m.fr = <<>>
          /\ \A loc \in Locs, q \in Memoized : m.recs[loc][q].lock = recs[loc][q].lock

\* the first task holds the lock of the Singleton, suspended in the creator of
\* the Resource it takes; sync_resolve of the Singleton by the second task
\* ends at once, raising
C28_Witness ==
  /\ recs["global"]["SG"].lock = "t1" /\ recs["global"]["SG"].instance = None
  /\ frames["t1"] # <<>> /\ frames["t1"][Len(frames["t1"])].pc = "creating"
  /\ Idle("t2")
  /\ SyncCall("t2", "SG", AllOk).sr = ErrRes("SyncOnAsync")
  /\ SyncCall("t2", "SG", AllOk).recs = recs

\* C29: the fast path.  When the record of a provider holds an instance and
\* the provider has no override, sync_resolve and async_resolve return that
\* instance without taking the creation lock: they end at once, suspended
\* nowhere, and change no record, also while another task holds the lock.
C29_FastPath ==
  \A t \in Tasks, p \in Providers :
    /\ Idle(t) /\ override[p] = None
    /\ FetchLoc(Machine(t, ctxVar[t], <<>>), p) # "none"
    /\ recs[FetchLoc(Machine(t, ctxVar[t], <<>>), p)][p].instance # None
    => \A oc \in Oracles(p) :
         /\ \A m \in {SyncCall(t, p, oc)} :
              /\ m.sr = FromRec(Machine(t, ctxVar[t], <<>>), FetchLoc(m, p), p)
              /\ m.recs = recs
         /\ \A m \in {AsyncCall(t, p, oc)} :
              /\ m.fr = <<>>
              /\ m.out = FromRec(Machine(t, ctxVar[t], <<>>), FetchLoc(m, p), p)
              /\ m.recs = recs

\* the Singleton holds an instance (a sync_resolve stored it) while the second
\* task, suspended in an async_resolve of it, holds its lock; an async_resolve
\* by the first task returns the instance at once
C29_Witness ==
  /\ recs["global"]["SG"].instance # None
  /\ recs["global"]["SG"].lock = "t2"
  /\ Idle("t1") /\ override["SG"] = None
  /\ AsyncCall("t1", "SG", AllOk).fr = <<>>
  /\ AsyncCall("t1", "SG", AllOk).out.v = recs["global"]["SG"].instance

\* the record holds no instance, no cleanup stack and no release action
EmptyRec(r) == r.instance = None /\ r.stack = "none" /\ ~r.live

\* C30: the teardown paths per kind of record.  tear_down releases a record
\* that holds a sync or an async cleanup stack and leaves it empty;
\* sync_tear_down does so for a record that holds a sync stack, and for one
\* that holds an async stack it raises the cannot-tear-down-in-sync-mode error,
\* releases nothing and leaves the record as it is.
C30_TearDownPaths ==
  \A loc \in Locs, p \in Providers :
    /\ Kind(p) # "Singleton" /\ recs[loc][p].reg
    /\ recs[loc][p].stack # "none" /\ recs[loc][p].lock = Free
    => \A oc \in {"ok", "raise"} :
         /\ \A td \in {TearDown(recs[loc][p], oc)} :
              td.ran = recs[loc][p].live /\ EmptyRec(td.r)
         /\ \A td \in {SyncTearDown(recs[loc][p], oc)} :
              IF recs[loc][p].stack = "sync"
              THEN td.ran = recs[loc][p].live /\ EmptyRec(td.r)
              ELSE td = [r |-> recs[loc][p], err |-> "AsyncTearDownInSync", ran |-> FALSE]

\* C31: teardown of an empty record is a no-op and teardown is idempotent:
\* tear_down and sync_tear_down of a record that holds no cleanup stack change
\* nothing and raise nothing, and a second teardown of a record, after a first
\* one by the same method, changes nothing more and runs no release action
\* (and raises nothing when the first raised nothing).
C31_TearDownIdempotent ==
  \A p \in {"RA", "RS"} :
    \A r \in {recs["global"][p]} :
      r.lock = Free =>
        /\ r.stack = "none" =>
             \A oc \in ReleaseOutcomes :
               /\ TearDown(r, oc) = [r |-> r, err |-> "", ran |-> FALSE]
               /\ SyncTearDown(r, oc) = [r |-> r, err |-> "", ran |-> FALSE]
        /\ \A oc1, oc2 \in ReleaseOutcomes :
             /\ \A td1 \in {TearDown(r, oc1)} : \A td2 \in {TearDown(td1.r, oc2)} :
                  td2.r = td1.r /\ ~td2.ran /\ (td1.err = "" => td2.err = "")
             /\ \A td1 \in {SyncTearDown(r, oc1)} : \A td2 \in {SyncTearDown(td1.r, oc2)} :
                  td2.r = td1.r /\ ~td2.ran /\ (td1.err = "" => td2.err = "")

\* C32: a record that does not permit async (is_async = FALSE) never holds an
\* async cleanup stack, and so the __exit__ of a scope whose latest entry was
\* synchronous never meets the cannot-tear-down-in-sync-mode error.
C32_NoAsyncStackInSyncScope ==
  /\ \A loc \in Locs, p \in Memoized :
       recs[loc][p].reg /\ ~recs[loc][p].is_async => recs[loc][p].stack # "async"
  /\ \A c \in Scopes :
       Innermost("t1", c) /\ akey[initial_context[c]] = "false" /\ Idle("t1") =>
         \A oc \in ReleaseOracles :
           ExitCall("t1", c, "sync", oc).loopErr # "AsyncTearDownInSync"

\* C33: no caller waits forever on the creation lock.  When the event loop
\* runs every ready task and every creator that was started returns or raises,
\* every async_resolve call of every task ends, returning or raising, also the
\* calls that wait for a lock whose holder's construction failed.
C33_NoCallerWaitsForever ==
  \A t \in Tasks : (frames[t] # <<>>) ~> (frames[t] = <<>>)

\* the second task waits for the lock of the async Resource; the
\* construction of the first task, which held it, has raised and the lock is
\* free; resumed, the second task takes the lock and starts the creator
C33_Witness ==
  /\ frames["t2"] # <<>> /\ frames["t2"][Len(frames["t2"])].pc = "wait"
  /\ frames["t2"][Len(frames["t2"])].p = "RA"
  /\ frames["t1"] = <<>>
  /\ recs["global"]["RA"].faulty /\ recs["global"]["RA"].instance = None
  /\ recs["global"]["RA"].lock = Free
  /\ faults = 1
  /\ \A m \in {Resumed("t2", AllOk)} :
       m.recs["global"]["RA"].lock = "t2" /\ Top(m).pc = "creating"

\* C34: a failing exit changes nothing.  __exit__ / __aexit__ of a scope that
\* is not active (never entered, or already exited), called while another scope
\* is active, raises, tears down no record of the active scope and leaves the
\* active scope in place.
C34_FailingExitChangesNothing ==
  \A c \in Scopes :
    /\ ScopeState(c) # "active" /\ Idle("t1")
    /\ \E c0 \in Scopes \ {c} : Innermost("t1", c0)
    => \A mode \in {"sync", "async"}, oc \in ReleaseOracles :
         \A x \in {ExitCall("t1", c, mode, oc)} :
           /\ x.err # ""
           /\ x.released = <<>>
           /\ x.dict # Missing => x.recs = recs[x.dict]
           /\ x.cv = ctxVar["t1"]

\* C35: a record is populated at most once between its creation and its
\* teardown, whatever the creator yields, None included: once the creator of a
\* ContextResource has yielded in a scope (the record's cleanup stack holds its
\* release action), no further resolution in that scope starts the creator
\* again or replaces the cleanup stack.
C35_PopulatedOnce ==
  \A p \in CtxProviders :
    /\ Idle("t1") /\ ctxVar["t1"] # Missing /\ override[p] = None
    /\ recs[ctxVar["t1"]][p].live /\ recs[ctxVar["t1"]][p].lock = Free
    => \A oc \in Oracles(p) :
         \A m \in {SyncCall("t1", p, oc),
                    Drive(Machine("t1", ctxVar["t1"], <<NewFrame(p)>>), oc)} :
           /\ m.recs[ctxVar["t1"]][p].starts = recs[ctxVar["t1"]][p].starts
           /\ m.recs[ctxVar["t1"]][p].stack = recs[ctxVar["t1"]][p].stack
           /\ m.recs[ctxVar["t1"]][p].live

\* the scope that was active when scope c was entered in SpecNested, as the
\* value of _CONTAINER_CONTEXT: c2 is entered inside c1, c1 outside every scope
EnclosingNested(c) == IF c = "c2" THEN initial_context["c1"] ELSE Missing

\* C36: scope nesting is a stack.  With properly nested entries and exits the
\* ambient scope is always the innermost scope entered and not yet exited, and
\* the exit of that scope, whether or not a teardown raises, leaves as the
\* ambient scope exactly the one (or the absence of one) that was active when
\* it was entered.
C36_NestingIsAStack ==
  /\ ctxVar["t1"] = (IF InnermostNested = "none" THEN Missing
                     ELSE initial_context[InnermostNested])
  /\ \A c \in Scopes :
       c = InnermostNested /\ Idle("t1") =>
         \A mode \in {"sync", "async"}, oc \in ReleaseOracles :
           ExitCall("t1", c, mode, oc).cv = EnclosingNested(c)

\* the inner scope was entered and exited inside the outer one, which is the
\* ambient scope again and still holds its instance; the exit of the outer
\* scope will leave the task outside every scope
C36_Witness ==
  /\ ScopeState("c1") = "active" /\ ScopeState("c2") = "exited" /\ Idle("t1")
  /\ ctxVar["t1"] = "d1"
  /\ recs["d1"]["CB"].instance # None
  /\ recs["d2"]["CB"].reg /\ recs["d2"]["CB"].instance = None
  /\ ExitCall("t1", "c1", "sync", AllOk).cv = Missing

\* the exception that ends the teardown loop of an exit in the given mode, no
\* release action raising, over the records recsOf registered in the order keys
ExitLoopErr(recsOf, keys, mode) ==
  TearDownLoop([recs |-> recsOf, released |-> <<>>, called |-> {}, tornDown |-> <<>>,
                err |-> ""], keys, Len(keys), mode, AllOk).err

\* the resolution m started no factory or creator, changed no record's
\* instance, lock or release action held by its cleanup stack, and the scope
\* of the caller, if its exit would have raised nothing before, can still be
\* exited without error
NoConstruction(m) ==
  /\ m.calls = <<>>
  /\ \A loc \in Locs, q \in Memoized :
       /\ m.recs[loc][q].instance = recs[loc][q].instance
       /\ m.recs[loc][q].live = recs[loc][q].live
       /\ m.recs[loc][q].lock = recs[loc][q].lock
       /\ m.recs[loc][q].starts = recs[loc][q].starts
  /\ m.cv # Missing =>
       \A mode \in {"sync", "async"} :
         ExitLoopErr(recs[m.cv], order[m.cv], mode) = "" =>
           ExitLoopErr(m.recs[m.cv], m.order[m.cv], mode) = ""

SelectorResolved(m, res, d, dres, p, sel, via) ==
  /\ Cardinality(CallsOf(m.calls, p)) = 1
  /\ sel = "ok" =>
       /\ m.resolved = <<[p |-> Selected(p), via |-> via]>>
       /\ res.k = dres.k /\ res.v = dres.v /\ res.e = dres.e
       /\ m.recs = d.recs
       /\ {m.calls[i] : i \in 2..Len(m.calls)} = {d.calls[i] : i \in 1..Len(d.calls)}
  /\ sel = "none" =>
       /\ res = ErrRes("NoMatch")
       /\ m.resolved = <<>> /\ Len(m.calls) = 1 /\ m.recs = recs

\* C38: with no override set, sync_resolve / async_resolve of a Selector calls
\* the selector function once and resolves, by the same method, exactly the
\* provider registered under the key it returns, returning that provider's
\* result; for a key with no provider it raises the no-match error and
\* resolves no provider.
C38_SelectorResolution ==
  \A t \in Tasks, p \in AllProviders :
    Kind(p) = "Selector" /\ Idle(t) /\ override[p] = None =>
      \A oc \in Oracles(p) :
        oc[p] # "raise" =>
          /\ \A m \in {SyncCall(t, p, oc)}, d \in {SyncCall(t, Selected(p), oc)} :
               SelectorResolved(m, m.sr, d, d.sr, p, oc[p], "sync")
          /\ \A m \in {Drive(Machine(t, ctxVar[t], <<NewFrame(p)>>), oc)},
                 d \in {Drive(Machine(t, ctxVar[t], <<NewFrame(Selected(p))>>), oc)} :
               /\ m.fr = <<>> <=> d.fr = <<>>
               /\ m.fr = <<>> => SelectorResolved(m, m.out, d, d.out, p, oc[p], "async")

\* the Resource registered with the Selector holds no instance while other
\* instances exist and another provider is overridden; the Selector, its
\* selector returning the registered key, constructs the Resource and returns
\* the new instance, and with an unregistered key it raises the no-match error
C38_Witness ==
  /\ Idle("t1") /\ nextId > 1 /\ override["FA"] # None
  /\ override["SE"] = None /\ override["RS"] = None
  /\ recs["global"]["RS"].instance = None
  /\ SyncCall("t1", "SE", AllOk).sr.v = nextId
  /\ SyncCall("t1", "SE", AllOk).recs["global"]["RS"].instance = nextId
  /\ AsyncCall("t1", "SE", AllOk).out.v = nextId
  /\ SyncCall("t1", "SE", [AllOk EXCEPT !["SE"] = "none"]).sr = ErrRes("NoMatch")

\* the resolution m of the Factory p, started from the machine m0, called the
\* factory once and its result res is what that call gave: an object that did
\* not exist before, None, or the factory's exception; the override of no
\* provider changed
FactoryCalledOnce(m0, m, res, p, o) ==
  /\ Cardinality(CallsOf(m.calls, p)) = 1
  /\ m.ov = m0.ov
  /\ o = "ok" => res.k = "val" /\ res.v >= m0.nextId
  /\ o = "none" => res = OkRes(None)
  /\ o = "raise" => res = ErrRes("CreatorError")

\* the arguments of p resolve to values from the machine m0
SyncArgsGiven(m0, p, oc) ==
  \A i \in 1..Len(Args(p)) : SyncResolve(m0, Args(p)[i], oc).sr.k = "val"
AsyncArgsGiven(m0, p, oc) ==
  \A i \in 1..Len(Args(p)) :
    \A a \in {Drive([m0 EXCEPT !.fr = <<NewFrame(Args(p)[i])>>], oc)} :
      a.fr = <<>> /\ a.out.k = "val"

\* C39: a Factory never memoizes.  With no override set, every sync_resolve
\* and every async_resolve of a Factory whose arguments resolve calls the
\* factory once and returns what that call returned; a second resolution calls
\* it once more and returns another object; no override changes.
C39_FactoryNeverMemoizes ==
  \A t \in Tasks, p \in AllProviders :
    Kind(p) = "Factory" /\ Idle(t) /\ override[p] = None =>
      \A oc \in Oracles(p) :
        /\ \A m0 \in {Machine(t, ctxVar[t], <<>>)} :
             SyncArgsGiven(m0, p, oc) =>
               \A m \in {SyncResolve(m0, p, oc)} :
                 /\ FactoryCalledOnce(m0, m, m.sr, p, oc[p])
                 /\ \A oc2 \in Oracles(p), n0 \in {AfterReset(m, p, <<>>)} :
                      SyncArgsGiven(n0, p, oc2) =>
                        \A n \in {SyncResolve(n0, p, oc2)} :
                          /\ FactoryCalledOnce(n0, n, n.sr, p, oc2[p])
                          /\ oc[p] = "ok" /\ oc2[p] = "ok" => n.sr.v # m.sr.v
        /\ \A m0 \in {Machine(t, ctxVar[t], <<NewFrame(p)>>)} :
             AsyncArgsGiven(m0, p, oc) =>
               \A m \in {Drive(m0, oc)} :
                 /\ m.fr = <<>>
                 /\ FactoryCalledOnce(m0, m, m.out, p, oc[p])
                 /\ \A oc2 \in Oracles(p), n0 \in {AfterReset(m, p, <<NewFrame(p)>>)} :
                      AsyncArgsGiven(n0, p, oc2) =>
                        \A n \in {Drive(n0, oc2)} :
                          /\ n.fr = <<>>
                          /\ FactoryCalledOnce(n0, n, n.out, p, oc2[p])
                          /\ oc[p] = "ok" /\ oc2[p] = "ok" => n.out.v # m.out.v

\* the Factory is not overridden, it was overridden before, and the Resource it
\* takes holds an instance: two resolutions in a row call the factory once each
\* and return two new objects
C39_Witness ==
  /\ Idle("t1") /\ override["FA"] = None /\ override["RS"] = None
  /\ override["OB"] # None
  /\ recs["global"]["RS"].instance # None
  /\ SyncCall("t1", "FA", AllOk).sr.v = nextId
  /\ SyncCall("t1", "FA", AllOk).calls
       = <<[p |-> "FA", args |-> <<recs["global"]["RS"].instance>>]>>
  /\ SyncResolve(AfterReset(SyncCall("t1", "FA", AllOk), "FA", <<>>), "FA", AllOk).sr.v
       = nextId + 1
  /\ AsyncCall("t1", "FA", AllOk).out.v = nextId

====
